---- MODULE Spec2Model ----
(***************************************************************************)
(* Model of the help-center chat backend: the tool-action protocol         *)
(* (tool-action.types.ts), the provider failover chain                     *)
(* (multi-llm.client.ts and the four backend clients) and the two-phase    *)
(* conversation orchestrator (chat.service.ts).                            *)
(*                                                                         *)
(* Texts are sequences of lexemes.  Each lexeme stands for one fixed       *)
(* character string:                                                       *)
(*     "w"     ok            a prose word                                  *)
(*     "act"   action        the bare word, no quotes                      *)
(*     "sp"    one space     "nl"   one line feed                          *)
(*     "bul"   -             a bullet glyph                                *)
(*     "fence" ```           a markdown code-fence delimiter               *)
(*     "open"  {"action"     "copen"  the same with curly quotes           *)
(*     "none"  :"none"       "cnone"  the same with curly quotes           *)
(*     "fs"    :"flight_status"                                            *)
(*     "rw"    :"route_weather"                                            *)
(*     "wfa"   :"weather_at_flight_arrival"                                *)
(*     "bad"   :"delete_booking"   an action id outside the closed set     *)
(*     "rb"    }             "lb"   {                                      *)
(*     "par"   ,"params":                                                  *)
(*     "fn"    "flight_number":"UA2402"                                    *)
(*     "fnNum" "flight_number":2402      a number, not a string            *)
(*     "cities" "origin_city":"Barcelona","destination_city":"Dublin"      *)
(*     "fnBrace" "flight_number":"}"     a string value that holds a brace *)
(* No lexeme ends with a proper prefix of another pattern literal, so a    *)
(* regular expression of the source matches a text exactly when its        *)
(* lexeme-level transcription below matches the lexeme sequence.  The one  *)
(* exception is "fnBrace", whose brace lies inside the lexeme: it occurs    *)
(* only in texts given to parseToolAction, never in a text that is         *)
(* stripped.                                                               *)
(***************************************************************************)
EXTENDS Integers, Sequences, FiniteSets, TLC

\* ------------------------------------------------------------------ bounds
MaxLen == 4

MaxHistory == 2

\* ------------------------------------------------------------- lexeme kinds
KnownVals == {"none", "fs", "rw", "wfa"}

IsWs(c) == c \in {"sp", "nl"}

IsHsp(c) == c = "sp"

IsBullet(c) == c = "bul"

HasAction(c) == c \in {"act", "open", "copen"}

\* ---------------------------------------------------------- string helpers
RECURSIVE SkipWs(_, _)
SkipWs(s, i) ==
  IF i <= Len(s) /\ IsWs(s[i]) THEN SkipWs(s, i + 1) ELSE i

RECURSIVE SkipHsp(_, _)
SkipHsp(s, i) ==
  IF i <= Len(s) /\ IsHsp(s[i]) THEN SkipHsp(s, i + 1) ELSE i

RECURSIVE SkipBullets(_, _)
SkipBullets(s, i) ==
  IF i <= Len(s) /\ IsBullet(s[i]) THEN SkipBullets(s, i + 1) ELSE i

RECURSIVE SkipWsBack(_, _)
SkipWsBack(s, j) ==
  IF j >= 1 /\ IsWs(s[j]) THEN SkipWsBack(s, j - 1) ELSE j

\* s[i..j-1], the half-open slice String.prototype.slice(i, j) of a 1-based text
Slice(s, i, j) == SubSeq(s, i, j - 1)

TrimNoTrailing(s) == SubSeq(s, 1, SkipWsBack(s, Len(s)))

Trim(s) ==
  LET a == SkipWs(s, 1)
      b == SkipWsBack(s, Len(s))
  IN IF a > b THEN <<>> ELSE SubSeq(s, a, b)

\* every text is taken to hold the word, so the quick exit is never taken
IncludesActionAlways(s) == TRUE

\* text.includes('action')
IncludesAction(s) == \E i \in 1..Len(s) : HasAction(s[i])

\* ------------------------------------------------- stripToolJsonFromReply
NormalizeLexeme(c) ==
  CASE c = "copen" -> "open"
    [] c = "cnone" -> "none"
    [] OTHER -> c

\* the text with its typographic quotes left as they are
NormalizeNothing(s) == s

Normalize(s) == [i \in 1..Len(s) |-> NormalizeLexeme(s[i])]

RECURSIVE FirstRb(_, _)
FirstRb(s, i) ==
  IF i > Len(s) THEN 0
  ELSE IF s[i] = "rb" THEN i ELSE FirstRb(s, i + 1)

\* the part of toolJsonPattern from the opening brace on, tried at position p:
\* the position after the match, or 0
ToolJsonCoreEnd(s, p) ==
  IF p > Len(s) \/ s[p] # "open" THEN 0
  ELSE LET q == SkipWs(s, p + 1)
       IN IF q > Len(s) \/ s[q] \notin KnownVals THEN 0
          ELSE LET r == FirstRb(s, q + 1)
               IN IF r = 0 THEN 0 ELSE SkipWs(s, r + 1)

\* toolJsonPattern tried at position i: the position after the match, or 0
ToolJsonMatchEnd(s, i) ==
  LET a == SkipHsp(s, i)
      b == IF a <= Len(s) /\ IsBullet(s[a]) THEN a + 1 ELSE a
      p == SkipWs(s, b)
  IN ToolJsonCoreEnd(s, p)

RECURSIVE ReplaceToolJson(_, _)
ReplaceToolJson(s, pos) ==
  IF pos > Len(s) THEN <<>>
  ELSE LET e == ToolJsonMatchEnd(s, pos)
       IN IF e # 0 THEN <<"sp">> \o ReplaceToolJson(s, e)
          ELSE <<s[pos]>> \o ReplaceToolJson(s, pos + 1)

RECURSIVE StripLoop(_)
StripLoop(t) ==
  LET n == Trim(ReplaceToolJson(t, 1))
  IN IF n = t THEN t ELSE StripLoop(n)

\* /\s*```(?:json)?\s*\n?\s*```\s*/ tried at position i
FencePairMatchEnd(s, i) ==
  LET a == SkipWs(s, i)
  IN IF a > Len(s) \/ s[a] # "fence" THEN 0
     ELSE LET b == SkipWs(s, a + 1)
          IN IF b > Len(s) \/ s[b] # "fence" THEN 0
             ELSE SkipWs(s, b + 1)

RECURSIVE RemoveFencePairs(_, _)
RemoveFencePairs(s, pos) ==
  IF pos > Len(s) THEN <<>>
  ELSE LET e == FencePairMatchEnd(s, pos)
       IN IF e # 0 THEN RemoveFencePairs(s, e)
          ELSE <<s[pos]>> \o RemoveFencePairs(s, pos + 1)

\* /\s*```(?:json)?\s*$/ tried at position i
TrailingFenceMatches(s, i) ==
  LET a == SkipWs(s, i)
  IN a <= Len(s) /\ s[a] = "fence" /\ SkipWs(s, a + 1) > Len(s)

RECURSIVE RemoveTrailingFence(_, _)
RemoveTrailingFence(s, pos) ==
  IF pos > Len(s) THEN <<>>
  ELSE IF TrailingFenceMatches(s, pos) THEN <<>>
       ELSE <<s[pos]>> \o RemoveTrailingFence(s, pos + 1)

\* /^\s*```(?:json)?\s*\n?/ : anchored at the start of the text
RemoveLeadingFence(s) ==
  LET a == SkipWs(s, 1)
  IN IF a <= Len(s) /\ s[a] = "fence"
     THEN SubSeq(s, SkipWs(s, a + 1), Len(s))
     ELSE s

\* /\s{2,}/g -> ' '
RECURSIVE CollapseSpaces(_, _)
CollapseSpaces(s, pos) ==
  IF pos > Len(s) THEN <<>>
  ELSE LET e == SkipWs(s, pos)
       IN IF e >= pos + 2 THEN <<"sp">> \o CollapseSpaces(s, e)
          ELSE <<s[pos]>> \o CollapseSpaces(s, pos + 1)

AtLineStart(s, i) == i = 1 \/ s[i - 1] = "nl"

AtLineEnd(s, i) == i > Len(s) \/ s[i] = "nl"

\* the largest k in lo..hi with AtLineEnd(s, k), or 0: where the greedy \s*
\* of the bullet-line pattern backs off to
RECURSIVE BackOffToLineEnd(_, _, _)
BackOffToLineEnd(s, lo, k) ==
  IF k < lo THEN 0
  ELSE IF AtLineEnd(s, k) THEN k ELSE BackOffToLineEnd(s, lo, k - 1)

\* /^[^\S\r\n]*[\*\-•]+\s*$/m tried at position i
BulletLineMatchEnd(s, i) ==
  IF ~AtLineStart(s, i) THEN 0
  ELSE LET a == SkipHsp(s, i)
           b == SkipBullets(s, a)
       IN IF b = a THEN 0
          ELSE BackOffToLineEnd(s, b, SkipWs(s, b))

RECURSIVE RemoveBulletLines(_, _)
RemoveBulletLines(s, pos) ==
  IF pos > Len(s) THEN <<>>
  ELSE LET e == BulletLineMatchEnd(s, pos)
       IN IF e # 0 THEN RemoveBulletLines(s, e)
          ELSE <<s[pos]>> \o RemoveBulletLines(s, pos + 1)

NlCount(s, i, j) == Cardinality({k \in i..(j - 1) : s[k] = "nl"})

RECURSIVE LastNl(_, _, _)
LastNl(s, lo, k) ==
  IF k < lo THEN 0
  ELSE IF s[k] = "nl" THEN k ELSE LastNl(s, lo, k - 1)

\* /\n\s*\n\s*\n/ tried at position i
BlankLinesMatchEnd(s, i) ==
  IF i > Len(s) \/ s[i] # "nl" THEN 0
  ELSE LET e == SkipWs(s, i)
       IN IF NlCount(s, i, e) >= 3 THEN LastNl(s, i, e - 1) + 1 ELSE 0

RECURSIVE CollapseBlankLines(_, _)
CollapseBlankLines(s, pos) ==
  IF pos > Len(s) THEN <<>>
  ELSE LET e == BlankLinesMatchEnd(s, pos)
       IN IF e # 0 THEN <<"nl", "nl">> \o CollapseBlankLines(s, e)
          ELSE <<s[pos]>> \o CollapseBlankLines(s, pos + 1)

\* steps 2 to 5 of stripToolJsonFromReply: the text t before the final fallback
StripWork(reply) ==
  LET t3 == StripLoop(Normalize(reply))
      t4a == Trim(RemoveFencePairs(t3, 1))
      t4b == Trim(RemoveTrailingFence(t4a, 1))
      t4c == Trim(RemoveLeadingFence(t4b))
      t5a == Trim(CollapseSpaces(t4c, 1))
      t5b == Trim(RemoveBulletLines(t5a, 1))
  IN Trim(CollapseBlankLines(t5b, 1))

\* return t, without the fallback of step 6
StripFallbackNone(t, reply) == t

StripFallback(t, reply) == IF t # <<>> THEN t ELSE Trim(reply)

stripToolJsonFromReply(reply) ==
  IF ~IncludesAction(reply) THEN Trim(reply)
  ELSE StripFallback(StripWork(reply), reply)

\* ---------------------------------------------------------- JSON.parse
ValLexemes == KnownVals \cup {"bad"}

ParamLexemes == {"fn", "fnNum", "cities", "fnBrace"}

IsOpenBrace(c) == c \in {"open", "copen", "lb"}

ParseFail == [end |-> 0, params |-> "absent"]

\* JSON.parse of an object that starts at s[i]: end is the position after its
\* closing brace (0 on a syntax error) and params describes the value of its
\* last "params" member: "absent", "empty" ({}), the member of a one-member
\* object ("fn", "fnNum", "cities") or "actionobj" (an object with an action)
RECURSIVE ParseObj(_, _), ParseMembers(_, _, _)
ParseObj(s, i) ==
  IF i > Len(s) THEN ParseFail
  ELSE IF s[i] = "open"
  THEN LET j == SkipWs(s, i + 1)
       IN IF j > Len(s) \/ s[j] \notin ValLexemes THEN ParseFail
          ELSE ParseMembers(s, SkipWs(s, j + 1), "absent")
  ELSE IF s[i] = "lb"
  THEN LET j == SkipWs(s, i + 1)
       IN IF j > Len(s) THEN ParseFail
          ELSE IF s[j] = "rb" THEN [end |-> j + 1, params |-> "absent"]
          ELSE IF s[j] \in ParamLexemes
          THEN ParseMembers(s, SkipWs(s, j + 1), "absent")
          ELSE ParseFail
  ELSE ParseFail

ParseMembers(s, k, params) ==
  IF k > Len(s) THEN ParseFail
  ELSE IF s[k] = "rb" THEN [end |-> k + 1, params |-> params]
  ELSE IF s[k] = "par"
  THEN LET o == SkipWs(s, k + 1)
           inner == ParseObj(s, o)
           first == IF o + 1 <= Len(s) THEN s[SkipWs(s, o + 1)] ELSE "rb"
           described == IF s[o] = "open" THEN "actionobj"
                        ELSE IF first \in ParamLexemes THEN first
                        ELSE "empty"
       IN IF inner.end = 0 THEN ParseFail
          ELSE ParseMembers(s, SkipWs(s, inner.end), described)
  ELSE ParseFail

\* ------------------------------------------------------- parseToolAction
Null == [action |-> "null", params |-> "absent"]

ActionOf(c) ==
  CASE c = "none" -> "none"
    [] c = "fs" -> "flight_status"
    [] c = "rw" -> "route_weather"
    [] c = "wfa" -> "weather_at_flight_arrival"
    [] OTHER -> "delete_booking"

TOOL_ACTION_IDS == {"flight_status", "route_weather", "weather_at_flight_arrival", "none"}

tryParseToolActionAnyId(jsonStr) ==
  LET s == Trim(jsonStr)
      parsed == ParseObj(s, 1)
  IN IF s = <<>> \/ parsed.end # Len(s) + 1 THEN Null
     ELSE IF s[1] # "open" THEN Null
     ELSE [action |-> ActionOf(s[SkipWs(s, 2)]), params |-> parsed.params]

tryParseToolAction(jsonStr) ==
  LET s == Trim(jsonStr)
      parsed == ParseObj(s, 1)
  IN IF s = <<>> \/ parsed.end # Len(s) + 1 THEN Null
     ELSE IF s[1] # "open" THEN Null
     ELSE IF ActionOf(s[SkipWs(s, 2)]) \in TOOL_ACTION_IDS
          THEN [action |-> ActionOf(s[SkipWs(s, 2)]), params |-> parsed.params]
          ELSE Null

\* trimmed.lastIndexOf('{', from): 0 when there is none.  A position before
\* the first character is taken as the first character.
RECURSIVE LastIndexOfBrace(_, _)
LastIndexOfBrace(s, from) ==
  IF from < 1 THEN IF Len(s) >= 1 /\ IsOpenBrace(s[1]) THEN 1 ELSE 0
  ELSE IF IsOpenBrace(s[from]) THEN from
  ELSE LastIndexOfBrace(s, from - 1)

\* the inner loop: the index of the closing brace that brings the depth back
\* to zero, 0 when the text ends first, -1 when that brace is the one inside
\* the string value of "fnBrace"
RECURSIVE DepthZeroAt(_, _, _)
DepthZeroAt(s, i, depth) ==
  IF i > Len(s) THEN 0
  ELSE IF IsOpenBrace(s[i]) THEN DepthZeroAt(s, i + 1, depth + 1)
  ELSE IF s[i] = "rb"
       THEN IF depth - 1 = 0 THEN i ELSE DepthZeroAt(s, i + 1, depth - 1)
  ELSE IF s[i] = "fnBrace"
       THEN IF depth - 1 = 0 THEN -1 ELSE DepthZeroAt(s, i + 1, depth - 1)
  ELSE DepthZeroAt(s, i + 1, depth)

\* the candidate runs to the end of the text
CandidateResultToEnd(s, start) == tryParseToolAction(SubSeq(s, start, Len(s)))

\* tryParseToolAction(trimmed.slice(start, i + 1)) for the candidate that
\* starts at start; a candidate cut inside a string value is not JSON
CandidateResult(s, start) ==
  LET close == DepthZeroAt(s, start, 0)
  IN IF close <= 0 THEN Null ELSE tryParseToolAction(SubSeq(s, start, close))

\* the loop goes on below the first character
ScanStopsNever(start) == FALSE

\* if (start <= 0) break, for the 1-based start
ScanStops(start) == start <= 1

\* the outer loop, entered with start = the index of an opening brace, or 0
RECURSIVE ScanCandidates(_, _)
ScanCandidates(s, start) ==
  IF start = 0 THEN Null
  ELSE LET result == CandidateResult(s, start)
       IN IF result # Null THEN result
          ELSE IF start <= 1 THEN Null
          ELSE ScanCandidates(s, LastIndexOfBrace(s, start - 1))

HasQuotedAction(c) == c = "open"

\* every text is taken to hold "action", so the scan is always entered
IncludesQuotedActionAlways(s) == TRUE

\* trimmed.includes('"action"')
IncludesQuotedAction(s) == \E i \in 1..Len(s) : HasQuotedAction(s[i])

\* the whole-string attempt never succeeds
WholeStringAttemptNone(trimmed) == Null

\* let result = tryParseToolAction(trimmed)
WholeStringAttempt(trimmed) == tryParseToolAction(trimmed)

parseToolAction(raw) ==
  LET trimmed == Trim(raw)
      result == WholeStringAttempt(trimmed)
  IN IF result # Null THEN result
     ELSE IF ~IncludesQuotedAction(trimmed) THEN Null
     ELSE ScanCandidates(trimmed, LastIndexOfBrace(trimmed, Len(trimmed)))

\* ================================================================ state
VARIABLES
  sIn, sOut, sOut2, sPc,
  pIn, pOut, pPc, pStart, pScan,
  primary, geminiKey, openaiKey,
  cMsgs, cPc, cProviders, cIdx, cInflight, cLog, cLastError, cResult,
  aviationKey, turn, suspended, fl, rt

stripVars == <<sIn, sOut, sOut2, sPc>>

parseVars == <<pIn, pOut, pPc, pStart, pScan>>

configVars == <<primary, geminiKey, openaiKey>>

chainVars == <<cMsgs, cPc, cProviders, cIdx, cInflight, cLog, cLastError, cResult>>

chatVars == <<aviationKey, turn>>

vars == <<stripVars, parseVars, configVars, chainVars, chatVars, suspended, fl, rt, rt>>

\* ------------------------------------------------------------- messages
Msg(role, content) == [role |-> role, content |-> content]

\* a null entry of the messages array (the request body is not validated)
NullMsg == [role |-> "null", content |-> <<>>]

IsNullMsg(m) == m.role = "null"

HasNullMsg(msgs) == \E i \in 1..Len(msgs) : IsNullMsg(msgs[i])

\* ------------------------------------------------------ backend clients
\* no value yet: an unsettled call, an unassigned variable
NoValue == [kind |-> "no_value"]

Thrown(src, kind) == [ok |-> FALSE, err |-> [src |-> src, kind |-> kind]]

Returned(text) == [ok |-> TRUE, text |-> text]

HttpError == [kind |-> "error", hasText |-> FALSE, text |-> <<>>]

\* a response whose reply text is present
HttpOk(text) == [kind |-> "ok", hasText |-> TRUE, text |-> text]

\* no HTTP request was made by the call
HttpNone == [kind |-> "no_request", hasText |-> FALSE, text |-> <<>>]

\* a response without the reply field (undefined)
HttpNoText == [kind |-> "ok", hasText |-> FALSE, text |-> <<>>]

\* the synchronous part of GeminiLlmClient.generateReply, up to the HTTP post:
\* a result when it throws, NoValue when the request goes out
GeminiPreflight(key, msgs) ==
  IF ~key THEN Thrown("gemini", "not_configured")
  ELSE IF HasNullMsg(msgs) THEN Thrown("gemini", "type_error")
  ELSE NoValue

GeminiBlankIsSuccess(http) ==
  IF http.kind = "error" THEN Thrown("gemini", "failed")
  ELSE Returned(IF ~http.hasText THEN <<>> ELSE Trim(http.text))

GeminiResult(http) ==
  IF http.kind = "error" THEN Thrown("gemini", "failed")
  ELSE LET trimmed == IF ~http.hasText THEN <<>> ELSE Trim(http.text)
       IN IF trimmed = <<>> THEN Thrown("gemini", "failed")
          ELSE Returned(trimmed)

OpenAiPreflight(key, msgs) ==
  IF ~key THEN Thrown("openai", "not_configured")
  ELSE IF HasNullMsg(msgs) THEN Thrown("openai", "type_error")
  ELSE NoValue

OpenAiResult(http) ==
  IF http.kind = "error" THEN Thrown("openai", "failed")
  ELSE LET content == IF ~http.hasText THEN <<>> ELSE Trim(http.text)
       IN IF content = <<>> THEN Thrown("openai", "failed")
          ELSE Returned(content)

FreeflowPreflight(msgs) == NoValue

FreeflowResult(http) ==
  IF http.kind = "error" THEN Thrown("freeflow", "failed")
  ELSE LET content == IF ~http.hasText THEN <<>> ELSE Trim(http.text)
       IN IF content = <<>> THEN Thrown("freeflow", "failed")
          ELSE Returned(content)

\* [...messages].reverse().find((m) => m.role === 'user'): the index of the
\* last user message, 0 when there is none, -1 when a null entry is read first
RECURSIVE LastUserIndex(_, _)
LastUserIndex(msgs, i) ==
  IF i = 0 THEN 0
  ELSE IF IsNullMsg(msgs[i]) THEN -1
  ELSE IF msgs[i].role = "user" THEN i
  ELSE LastUserIndex(msgs, i - 1)

\* "m1" .. "m5" are the fixed sentences of the demonstration reply; "m3" ends
\* with the opening quote of the question and "m4" starts with the closing one
MockLlmClientGenerateReply(msgs) ==
  LET i == LastUserIndex(msgs, Len(msgs))
  IN IF i = -1 THEN Thrown("mock", "type_error")
     ELSE LET question == IF i = 0 THEN <<>> ELSE msgs[i].content
          IN Returned(<<"m1", "nl", "nl", "m2", "nl", "nl">> \o
                      (IF question # <<>>
                       THEN <<"m3">> \o question \o <<"m4">>
                       ELSE <<"m5">>))

Preflight(id, msgs) ==
  CASE id = "gemini" -> GeminiPreflight(geminiKey, msgs)
    [] id = "openai" -> OpenAiPreflight(openaiKey, msgs)
    [] id = "freeflow" -> FreeflowPreflight(msgs)
    [] id = "mock" -> MockLlmClientGenerateReply(msgs)

ClientResult(id, http) ==
  CASE id = "gemini" -> GeminiResult(http)
    [] id = "openai" -> OpenAiResult(http)
    [] id = "freeflow" -> FreeflowResult(http)

\* ------------------------------------------------------- MultiLlmClient
PrimarySettings == {"gemini", "openai", "freeflow", "mock", "unset", "other"}

OrderedProvidersMockNotLast(setting) ==
  LET p == IF setting = "unset" THEN "gemini" ELSE setting
  IN CASE p = "freeflow" -> <<"freeflow", "gemini", "openai", "mock">>
       [] p = "openai" -> <<"openai", "mock", "gemini">>
       [] p = "mock" -> <<"mock">>
       [] OTHER -> <<"gemini", "openai", "mock">>

\* setting is the value of LLM_PROVIDER; "unset" is the missing variable and
\* "other" any string that names no provider
getOrderedProviders(setting) ==
  LET p == IF setting = "unset" THEN "gemini" ELSE setting
  IN CASE p = "freeflow" -> <<"freeflow", "gemini", "openai", "mock">>
       [] p = "openai" -> <<"openai", "gemini", "mock">>
       [] p = "mock" -> <<"mock">>
       [] OTHER -> <<"gemini", "openai", "mock">>

\* the for-of loop takes the next provider of the list
NextIndexSkipping(i) == i + 2

NextIndex(i) == i + 1

\* "await provider.client.generateReply(...)": the loop is suspended
AfterInvokePcNoAwait == "loop"

AfterInvokePc == "awaiting"

\* catch (error) { lastError = error; }
CatchErrorKeepFirst(lastError, error) ==
  IF lastError = NoValue THEN error ELSE lastError

CatchError(lastError, error) == error

\* generateReply is entered: line 66
ChainEnter(msgs) ==
  /\ cMsgs' = msgs
  /\ cProviders' = getOrderedProviders(primary)
  /\ cIdx' = 1
  /\ cPc' = "loop"
  /\ cInflight' = <<>>
  /\ cLog' = <<>>
  /\ cLastError' = NoValue
  /\ cResult' = NoValue

\* the loop calls the next provider's generateReply, which runs up to its
\* HTTP post (or to its end when it makes none), and awaits it
ChainInvoke ==
  /\ cPc = "loop"
  /\ cIdx <= Len(cProviders)
  /\ cInflight' = Append(cInflight, [id |-> cProviders[cIdx],
                                     http |-> HttpNone,
                                     settled |-> Preflight(cProviders[cIdx], cMsgs)])
  /\ cIdx' = NextIndex(cIdx)
  /\ cPc' = AfterInvokePc
  /\ UNCHANGED <<cMsgs, cProviders, cLog, cLastError, cResult>>

\* the provider's HTTP request completes and its client finishes
ChainSettle(http) ==
  /\ \E k \in 1..Len(cInflight) :
       /\ cInflight[k].settled = NoValue
       /\ cInflight' = [cInflight EXCEPT
                          ![k].http = http,
                          ![k].settled = ClientResult(cInflight[k].id, http)]
  /\ UNCHANGED <<cMsgs, cPc, cProviders, cIdx, cLog, cLastError, cResult>>

\* the awaited call has settled: return its reply, or catch its error
ChainResume ==
  /\ cPc = "awaiting"
  /\ cInflight # <<>>
  /\ Head(cInflight).settled # NoValue
  /\ LET call == Head(cInflight)
     IN /\ cLog' = Append(cLog, [id |-> call.id, http |-> call.http,
                                  result |-> call.settled])
        /\ IF call.settled.ok
           THEN /\ cResult' = call.settled
                /\ cPc' = "returned"
                /\ UNCHANGED cLastError
           ELSE /\ cLastError' = CatchError(cLastError, call.settled.err)
                /\ cPc' = "loop"
                /\ UNCHANGED cResult
  /\ cInflight' = Tail(cInflight)
  /\ UNCHANGED <<cMsgs, cProviders, cIdx>>

\* the list is exhausted: throw lastError ?? new Error(...)
ChainExhausted ==
  /\ cPc = "loop"
  /\ cIdx > Len(cProviders)
  /\ cResult' = [ok |-> FALSE,
                 err |-> IF cLastError = NoValue
                         THEN [src |-> "chain", kind |-> "all_failed"]
                         ELSE cLastError]
  /\ cPc' = "thrown"
  /\ UNCHANGED <<cMsgs, cProviders, cIdx, cInflight, cLog, cLastError>>

\* ------------------------------------------------------------- input sets
SeqsUpTo(S, n) == UNION {[1..k -> S] : k \in 0..n}

StripLexemes == {"w", "act", "sp", "nl", "bul", "fence", "open", "none", "rb"}

\* longer replies: tool JSON between prose, fenced, and split by a fence pair
LongReplies ==
  { <<"w", "sp", "open", "none", "rb", "sp", "w">>,
    <<"fence", "nl", "open", "none", "rb", "nl", "fence">>,
    <<"w", "open", "fence", "fence", "none", "rb">>,
    <<"open", "none", "rb", "sp", "open", "fence", "fence", "none", "rb", "sp", "w">>,
    <<"w", "sp", "fence", "open", "none", "rb", "w", "fence", "w">>,
    \* prose followed by one object with a nested params object
    <<"w", "sp", "open", "fs", "par", "lb", "fn", "rb", "rb">>,
    <<"w", "nl", "open", "rw", "par", "lb", "cities", "rb", "rb">>,
    <<"w", "sp", "open", "none", "par", "lb", "rb", "rb">>,
    \* typographic quotes, with and without the word action
    <<"w", "sp", "copen", "cnone", "rb">>,
    <<"copen", "sp", "cnone", "rb", "nl", "w">>,
    <<"w", "sp", "open", "none", "rb">>,
    <<"w", "sp", "sp", "cnone", "nl", "fence">> }

StripInputs == SeqsUpTo(StripLexemes, MaxLen) \cup LongReplies

ParseLexemes ==
  {"w", "sp", "open", "lb", "rb", "none", "fs", "bad", "par", "fn", "fnBrace"}

\* whole JSON objects and broken ones
ParseObjects ==
  { <<>>,
    <<"open", "none", "rb">>,
    <<"open", "bad", "rb">>,
    <<"open", "fs", "par", "lb", "fn", "rb", "rb">>,
    <<"open", "rw", "par", "lb", "cities", "rb", "rb">>,
    <<"open", "wfa", "par", "lb", "rb", "rb">>,
    <<"open", "none", "par", "open", "fs", "rb", "rb">>,
    <<"open", "bad", "par", "open", "none", "rb", "rb">>,
    <<"open", "fs", "par", "lb", "fnBrace", "rb", "rb">>,
    <<"open", "fs">>,
    <<"copen", "cnone", "rb">> }

\* prose around the objects, with and without stray braces
ParseFillers ==
  { <<>>, <<"w">>, <<"sp">>, <<"w", "sp", "lb", "w", "rb", "sp">>, <<"lb">>, <<"rb">> }

LongParseInputs ==
  {a \o x \o b \o y \o c : a \in ParseFillers, x \in ParseObjects, b \in ParseFillers,
                          y \in ParseObjects, c \in ParseFillers}

ParseInputs == SeqsUpTo(ParseLexemes, MaxLen) \cup LongParseInputs

SystemMsg == Msg("system", <<"prompt">>)

HistoryMsgs == {Msg("user", <<"w">>), Msg("user", <<>>), Msg("assistant", <<"w">>), NullMsg}

Conversations == {<<SystemMsg>> \o h : h \in SeqsUpTo(HistoryMsgs, MaxHistory)}

\* response texts of a backend: blank ones, prose, tool JSON alone, with params,
\* inside prose, malformed, fenced, and split by an empty fence pair
BackendTexts ==
  { <<>>, <<"sp">>, <<"w">>, <<"sp", "w", "nl">>,
    <<"open", "none", "rb">>,
    <<"open", "bad", "rb">>,
    <<"open", "none">>,
    <<"open", "fs", "par", "lb", "fn", "rb", "rb">>,
    <<"open", "fs", "par", "lb", "fnNum", "rb", "rb">>,
    <<"open", "rw", "par", "lb", "cities", "rb", "rb">>,
    <<"open", "wfa", "par", "lb", "fn", "rb", "rb">>,
    <<"w", "nl", "open", "rw", "rb">>,
    <<"w", "sp", "open", "bad", "rb">>,
    <<"w", "sp", "fence", "open", "none", "rb", "w", "fence", "w">>,
    <<"w", "open", "fence", "fence", "none", "rb">> }

HttpOutcomes == {HttpError, HttpNoText} \cup {HttpOk(t) : t \in BackendTexts}

\* ------------------------------------------------------- collaborators
\* a result { summary, arrivalAirport? } without the raw field
CollabReturned(summary, arrival) ==
  [ok |-> TRUE, summary |-> summary, arrival |-> arrival, raw |-> <<>>,
   err |-> [src |-> "", kind |-> ""]]

\* the result with its raw field: the payload the provider sent
\* ("rawPayload") or the text of the caught error ("rawError")
WithRaw(result, raw) == [result EXCEPT !.raw = raw]

CollabThrown(src, kind) ==
  [ok |-> FALSE, summary |-> <<>>, arrival |-> <<>>, raw |-> <<>>,
   err |-> [src |-> src, kind |-> kind]]

\* a collaborator call whose HTTP request is still out
CollabPending ==
  [ok |-> FALSE, summary |-> <<>>, arrival |-> <<>>, raw |-> <<>>,
   err |-> [src |-> "", kind |-> "pending"]]

\* the value of params.flight_number: missing (undefined or null), not a
\* string, or a string of the characters space, lower-case letter,
\* upper-case letter or digit, other sign
Undefined == [kind |-> "undefined", text |-> <<>>]

NonString == [kind |-> "number", text |-> <<>>]

Str(text) == [kind |-> "string", text |-> text]

FlightChars == {"sp", "lc", "uc", "sym"}

ToUpperCase(s) == [i \in 1..Len(s) |-> IF s[i] = "lc" THEN "uc" ELSE s[i]]

\* flight_number.trim().toUpperCase()
FlightIata(flight_number) == ToUpperCase(Trim(flight_number.text))

\* getFlightStatus up to its HTTP request: lines 179-186. ?.trim() of a
\* value that is not a string and not nullish is a TypeError
getFlightStatusStart(flight_number, key) ==
  IF flight_number.kind = "number" THEN CollabThrown("getFlightStatus", "type_error")
  ELSE IF flight_number.kind = "undefined" \/ Trim(flight_number.text) = <<>>
       THEN CollabReturned(<<"sumNoFlightNumber">>, <<>>)
  ELSE IF ~key THEN CollabReturned(<<"sumFlightNotConfigured">>, <<>>)
  ELSE CollabPending

\* the flight_number of a params object described by ParseObj
FlightNumberOf(params) ==
  CASE params = "fn" -> Str(<<"uc">>)
    [] params = "fnBrace" -> Str(<<"sym">>)
    [] params = "fnNum" -> NonString
    [] OTHER -> Undefined

\* AviationstackService.getFlightStatus up to its HTTP request; params is the
\* description of toolAction.params given by ParseObj
getFlightStatusPreflight(params, key) ==
  getFlightStatusStart(FlightNumberOf(params), key)

FlightOutcomes == {"http_error", "api_error", "no_data", "found", "found_no_arrival"}

\* a failed HTTP request is not caught
getFlightStatusResultRethrows(outcome) ==
  CASE outcome = "http_error" -> CollabThrown("getFlightStatus", "http_error")
    [] outcome = "api_error" ->
         WithRaw(CollabReturned(<<"sumFlightApiError">>, <<>>), <<"rawPayload">>)
    [] outcome = "no_data" ->
         WithRaw(CollabReturned(<<"sumNoFlightData">>, <<>>), <<"rawPayload">>)
    [] outcome = "found" ->
         WithRaw(CollabReturned(<<"sumFlight", "sp", "sumArrival">>, <<"airport">>),
                 <<"rawPayload">>)
    [] outcome = "found_no_arrival" ->
         WithRaw(CollabReturned(<<"sumFlight">>, <<>>), <<"rawPayload">>)

\* the rest of getFlightStatus, by what the HTTP request gave: lines 198-250
getFlightStatusResult(outcome) ==
  CASE outcome = "http_error" ->
         WithRaw(CollabReturned(<<"sumFlightUnable">>, <<>>), <<"rawError">>)
    [] outcome = "api_error" ->
         WithRaw(CollabReturned(<<"sumFlightApiError">>, <<>>), <<"rawPayload">>)
    [] outcome = "no_data" ->
         WithRaw(CollabReturned(<<"sumNoFlightData">>, <<>>), <<"rawPayload">>)
    [] outcome = "found" ->
         WithRaw(CollabReturned(<<"sumFlight", "sp", "sumArrival">>, <<"airport">>),
                 <<"rawPayload">>)
    [] outcome = "found_no_arrival" ->
         WithRaw(CollabReturned(<<"sumFlight">>, <<>>), <<"rawPayload">>)

\* a call of getFlightStatus: the flight number it is given, the requests it
\* has sent, what the request gave, and its result
FlightIdle ==
  [pc |-> "idle", flight_number |-> Undefined, requests |-> <<>>,
   response |-> "none", result |-> CollabPending]

\* OpenMeteoService.getRouteWeather up to its first HTTP request
getRouteWeatherPreflight(params) ==
  IF params # "cities" THEN CollabReturned(<<"sumNoOriginCity">>, <<>>)
  ELSE CollabPending

\* which of the two geocoding and the two forecast requests succeed
RouteOutcomes ==
  [geoOrigin : BOOLEAN, geoDest : BOOLEAN, wxOrigin : BOOLEAN, wxDest : BOOLEAN]

getRouteWeatherResult(outcome) ==
  IF ~outcome.geoOrigin THEN CollabReturned(<<"sumOriginNotFound">>, <<>>)
  ELSE IF ~outcome.geoDest THEN CollabReturned(<<"sumDestNotFound">>, <<>>)
  ELSE IF outcome.wxOrigin /\ outcome.wxDest
       THEN WithRaw(CollabReturned(<<"sumOriginWeather", "sp", "sumDestWeather">>, <<>>),
                    <<"rawPayload">>)
  ELSE WithRaw(CollabReturned(<<"sumRouteUnable">>, <<>>), <<"rawError">>)

\* a city name of the params object: a name, a blank string, or missing
CityNames == {"name", "blank", "undefined"}

\* cityName?.trim() is empty
CityNameEmpty(city) == city # "name"

\* what the geocoding request brings: a first result with its coordinates, no
\* usable result, or a failed request
GeocodeOutcomes == {"coords", "empty", "error"}

\* geocodeCity: the coordinates, or null; a failed request is caught
geocodeCity(outcome) == IF outcome = "coords" THEN "coords" ELSE "null"

\* what the forecast request brings: the current weather, a payload without
\* it, or a failed request, which fetchOpenMeteoCurrent does not catch
ForecastOutcomes == {"current", "nodata", "error"}

\* the text fetchOpenMeteoCurrent returns, as it stands in the summary after
\* the name of the city
fetchOpenMeteoCurrent(side, outcome) ==
  CASE side = "origin" /\ outcome = "current" -> "sumOriginWeather"
    [] side = "origin" /\ outcome = "nodata" -> "sumOriginNoData"
    [] side = "dest" /\ outcome = "current" -> "sumDestWeather"
    [] side = "dest" /\ outcome = "nodata" -> "sumDestNoData"

RouteIdle ==
  [pc |-> "idle", origin_city |-> "undefined", destination_city |-> "undefined",
   geo |-> [origin |-> "none", dest |-> "none"],
   wx |-> [origin |-> "none", dest |-> "none"],
   responses |-> <<>>, result |-> CollabPending]

\* lines 82-91: the result for a missing city name, CollabPending otherwise
getRouteWeatherStart(origin_city, destination_city) ==
  IF CityNameEmpty(origin_city) THEN CollabReturned(<<"sumNoOriginCity">>, <<>>)
  ELSE IF CityNameEmpty(destination_city) THEN CollabReturned(<<"sumNoDestCity">>, <<>>)
  ELSE CollabPending

\* the destination is looked at first
RouteAfterGeocodeDestFirst(originCoords, destCoords) ==
  IF destCoords = "null" THEN CollabReturned(<<"sumDestNotFound">>, <<>>)
  ELSE IF originCoords = "null" THEN CollabReturned(<<"sumOriginNotFound">>, <<>>)
  ELSE CollabPending

\* lines 98-107: the result for a city that was not found, CollabPending
\* when both were
RouteAfterGeocode(originCoords, destCoords) ==
  IF originCoords = "null" THEN CollabReturned(<<"sumOriginNotFound">>, <<>>)
  ELSE IF destCoords = "null" THEN CollabReturned(<<"sumDestNotFound">>, <<>>)
  ELSE CollabPending

\* Promise.all of the two forecasts has settled: one has failed, or both
\* have come
ForecastsSettled(wx) ==
  \/ wx.origin = "error" \/ wx.dest = "error"
  \/ wx.origin \in {"current", "nodata"} /\ wx.dest \in {"current", "nodata"}

\* lines 109-127: the summary of both forecasts, or the catch
RouteAfterForecast(wx) ==
  IF wx.origin = "error" \/ wx.dest = "error"
  THEN WithRaw(CollabReturned(<<"sumRouteUnable">>, <<>>), <<"rawError">>)
  ELSE WithRaw(CollabReturned(<<fetchOpenMeteoCurrent("origin", wx.origin), "sp",
                                fetchOpenMeteoCurrent("dest", wx.dest)>>, <<>>),
               <<"rawPayload">>)

\* OpenMeteoService.getWeatherForPlace up to its first HTTP request
getWeatherForPlacePreflight(placeName) ==
  IF Trim(placeName) = <<>> THEN CollabReturned(<<"sumNoPlaceName">>, <<>>)
  ELSE CollabPending

PlaceOutcomes == {"not_found", "fetch_failed", "ok"}

getWeatherForPlaceResult(outcome) ==
  CASE outcome = "not_found" -> CollabReturned(<<"sumPlaceNotFound">>, <<>>)
    [] outcome = "fetch_failed" -> CollabReturned(<<"sumWeatherNotFetched">>, <<>>)
    [] outcome = "ok" -> CollabReturned(<<"sumWeather">>, <<>>)

\* ----------------------------------------------------------- ChatService
MAX_MESSAGES == 12

\* the first n messages are kept
FirstN(messages, n) ==
  SubSeq(messages, 1, IF Len(messages) > n THEN n ELSE Len(messages))

\* messages.slice(-n)
LastN(messages, n) ==
  SubSeq(messages, (IF Len(messages) > n THEN Len(messages) - n + 1 ELSE 1), Len(messages))

\* [messages[0], ...messages.slice(-MAX_MESSAGES)]
TrimWindow(messages) == <<messages[1]>> \o LastN(messages, MAX_MESSAGES)

Phase1Conversation(userMessages) ==
  TrimWindow(<<Msg("system", <<"promptTools">>)>> \o userMessages)

\* requestNaturalLanguageReply: the messages it sends
NaturalLanguageConversation(userMessages) ==
  TrimWindow(<<Msg("system", <<"prompt", "nlOnly">>)>> \o userMessages)

\* the tool result is left out of the conversation
Phase2ConversationNoToolResult(userMessages, toolResultSummary) ==
  TrimWindow(<<Msg("system", <<"prompt">>)>> \o userMessages \o
             <<Msg("user", <<"instruction">>)>>)

Phase2Conversation(userMessages, toolResultSummary) ==
  TrimWindow(<<Msg("system", <<"prompt">>)>> \o userMessages \o
             <<Msg("assistant", toolResultSummary), Msg("user", <<"instruction">>)>>)

looksLikeJsonAlways(text) == TRUE

looksLikeJsonNever(text) == FALSE

looksLikeJson(text) ==
  LET t == Trim(text)
  IN t # <<>> /\ IsOpenBrace(t[1]) /\ IncludesAction(t)

IdleTurn ==
  [pc |-> "idle", history |-> <<>>, firstReply |-> <<>>, toolAction |-> Null,
   flight |-> CollabPending, toolResultSummary |-> <<>>, raw |-> <<>>,
   reply |-> <<>>, hasReply |-> FALSE, error |-> [src |-> "", kind |-> ""],
   calls |-> <<>>, collab |-> <<>>]

\* the locals of a handleChat call that has not started, with those of the
\* generateReply call it awaits
IdleLocals ==
  [turn |-> IdleTurn, cMsgs |-> <<>>, cPc |-> "idle", cProviders |-> <<>>,
   cIdx |-> 0, cInflight |-> <<>>, cLog |-> <<>>, cLastError |-> NoValue,
   cResult |-> NoValue]

ChatIdle ==
  aviationKey = FALSE /\ turn = IdleTurn /\ suspended = IdleLocals /\ fl = FlightIdle
  /\ rt = RouteIdle

\* a call handleChat issues: a backend call with its conversation, or a
\* collaborator lookup
CallRecord(kind, msgs) == [kind |-> kind, msgs |-> msgs]

\* a rejected await is not caught by handleChat: the turn fails
ChatFailSubstituteReply(t, err) ==
  [t EXCEPT !.pc = "done", !.reply = <<"w">>, !.hasReply = TRUE]

ChatFail(t, err) == [t EXCEPT !.pc = "failed", !.error = err]

\* return { reply: stripToolJsonFromReply(raw) }
Finish(t, raw) ==
  [t EXCEPT !.pc = "done", !.raw = raw,
            !.reply = stripToolJsonFromReply(raw), !.hasReply = TRUE]

ChainReset ==
  /\ cMsgs' = <<>> /\ cPc' = "idle" /\ cProviders' = <<>> /\ cIdx' = 0
  /\ cInflight' = <<>> /\ cLog' = <<>> /\ cLastError' = NoValue /\ cResult' = NoValue

\* this.llmClient.generateReply(msgs): the injected client is the mock client
\* when LLM_PROVIDER is mock, the failover chain otherwise
LlmEnterAlwaysChain(msgs) == ChainEnter(msgs)

LlmEnter(msgs) ==
  IF primary = "mock"
  THEN /\ cResult' = MockLlmClientGenerateReply(msgs)
       /\ cPc' = IF MockLlmClientGenerateReply(msgs).ok THEN "returned" ELSE "thrown"
       /\ cMsgs' = msgs /\ cProviders' = <<>> /\ cIdx' = 0
       /\ cInflight' = <<>> /\ cLog' = <<>> /\ cLastError' = NoValue
  ELSE ChainEnter(msgs)

LlmSettled == cPc \in {"returned", "thrown"}

\* the Phase-1 reply is sent along as an assistant message
AskNaturalWithFirstReply(t) ==
  LET conv == NaturalLanguageConversation(t.history) \o <<Msg("assistant", t.firstReply)>>
  IN /\ turn' = [t EXCEPT !.pc = "phase1b",
                          !.calls = Append(@, CallRecord("llm_phase1b", conv))]
     /\ LlmEnter(conv)

\* requestNaturalLanguageReply is called and awaited
AskNatural(t) ==
  LET conv == NaturalLanguageConversation(t.history)
  IN /\ turn' = [t EXCEPT !.pc = "phase1b",
                          !.calls = Append(@, CallRecord("llm_phase1b", conv))]
     /\ LlmEnter(conv)

\* lines 123-138: the Phase-2 conversation is built and sent
AskGrounded(t, toolResultSummary) ==
  LET conv == Phase2Conversation(t.history, toolResultSummary)
  IN /\ turn' = [t EXCEPT !.pc = "phase2",
                          !.toolResultSummary = toolResultSummary,
                          !.collab = <<>>,
                          !.calls = Append(@, CallRecord("llm_phase2", conv))]
     /\ LlmEnter(conv)

\* a collaborator lookup is called and awaited
\* arg is the argument of the lookup: the description of the params object,
\* or the place name
CallCollab(t, fn, arg, preflight) ==
  turn' = [t EXCEPT !.pc = "collab",
                    !.collab = <<[fn |-> fn, settled |-> preflight]>>,
                    !.calls = Append(@, CallRecord(fn, <<Msg("arg", arg)>>))]

\* the words of a long caller history, one for each message
HistWords ==
  <<"h1", "h2", "h3", "h4", "h5", "h6", "h7", "h8", "h9", "h10", "h11", "h12", "h13">>

LongHistory(n) ==
  [i \in 1..n |-> Msg(IF i % 2 = 1 THEN "user" ELSE "assistant", <<HistWords[i]>>)]

\* histories around the window: the Phase-2 conversation is first cut at
\* MAX_MESSAGES - 2 messages, the Phase-1 one at MAX_MESSAGES
LongHistoryLens == {MAX_MESSAGES - 2, MAX_MESSAGES, MAX_MESSAGES + 1}

ChatHistories ==
  {[i \in 1..n |-> IF i % 2 = 1 THEN Msg("user", <<"w">>) ELSE Msg("assistant", <<"w">>)] :
     n \in 0..MaxHistory}
  \cup {<<Msg("user", <<"w">>), NullMsg>>}
  \cup {LongHistory(n) : n \in LongHistoryLens}

\* handleChat is called: lines 50-61
HandleChat ==
  /\ turn.pc = "idle"
  /\ \E userMessages \in ChatHistories :
       LET conv == Phase1Conversation(userMessages)
       IN /\ turn' = [turn EXCEPT !.pc = "phase1", !.history = userMessages,
                                  !.calls = <<CallRecord("llm_phase1", conv)>>]
          /\ LlmEnter(conv)
  /\ UNCHANGED <<stripVars, parseVars, configVars, suspended, fl, rt, aviationKey>>

\* the action none is answered with a flight lookup
NoneBranchLooksUp(t) ==
  /\ CallCollab(t, "getFlightStatus", <<t.toolAction.params>>,
                getFlightStatusPreflight(t.toolAction.params, aviationKey))
  /\ ChainReset

\* lines 74-81: the action none asks for a natural-language reply
NoneBranch(t) == AskNatural(t)

\* the Phase-1 call has settled: lines 61-121
Phase1Resume ==
  /\ turn.pc = "phase1"
  /\ LlmSettled
  /\ IF ~cResult.ok
     THEN turn' = ChatFail(turn, cResult.err) /\ ChainReset
     ELSE LET firstReply == cResult.text
              toolAction == parseToolAction(firstReply)
              t == [turn EXCEPT !.firstReply = firstReply, !.toolAction = toolAction]
              params == toolAction.params
          IN IF toolAction = Null
             THEN IF looksLikeJson(firstReply)
                  THEN AskNatural(t)
                  ELSE turn' = Finish(t, firstReply) /\ ChainReset
             ELSE IF toolAction.action = "none" THEN NoneBranch(t)
             ELSE IF toolAction.action \in {"flight_status", "weather_at_flight_arrival"}
             THEN /\ CallCollab(t, "getFlightStatus", <<params>>,
                                getFlightStatusPreflight(params, aviationKey))
                  /\ ChainReset
             ELSE IF toolAction.action = "route_weather"
             THEN /\ CallCollab(t, "getRouteWeather", <<params>>,
                             getRouteWeatherPreflight(params))
                  /\ ChainReset
             ELSE AskNatural(t)
  /\ UNCHANGED <<stripVars, parseVars, configVars, suspended, fl, rt, aviationKey>>

CollabUnsettled == turn.collab # <<>> /\ turn.collab[1].settled = CollabPending

\* the HTTP requests of the pending collaborator lookup complete
FlightSettle ==
  /\ CollabUnsettled
  /\ turn.collab[1].fn = "getFlightStatus"
  /\ \E o \in FlightOutcomes :
       turn' = [turn EXCEPT !.collab[1].settled = getFlightStatusResult(o)]
  /\ UNCHANGED <<stripVars, parseVars, configVars, suspended, fl, rt, chainVars, aviationKey>>

RouteSettle ==
  /\ CollabUnsettled
  /\ turn.collab[1].fn = "getRouteWeather"
  /\ \E o \in RouteOutcomes :
       turn' = [turn EXCEPT !.collab[1].settled = getRouteWeatherResult(o)]
  /\ UNCHANGED <<stripVars, parseVars, configVars, suspended, fl, rt, chainVars, aviationKey>>

PlaceSettle ==
  /\ CollabUnsettled
  /\ turn.collab[1].fn = "getWeatherForPlace"
  /\ \E o \in PlaceOutcomes :
       turn' = [turn EXCEPT !.collab[1].settled = getWeatherForPlaceResult(o)]
  /\ UNCHANGED <<stripVars, parseVars, configVars, suspended, fl, rt, chainVars, aviationKey>>

ToolResultLabel(action) ==
  CASE action = "flight_status" -> <<"toolResultFs">>
    [] action = "route_weather" -> <<"toolResultRw">>
    [] OTHER -> <<"toolResultWfa">>

\* the summaries with which a lookup reports that it has no data to give
SoftFailureSummaries ==
  {<<"sumNoFlightNumber">>, <<"sumFlightNotConfigured">>, <<"sumFlightUnable">>,
   <<"sumFlightApiError">>, <<"sumNoFlightData">>, <<"sumNoOriginCity">>,
   <<"sumOriginNotFound">>, <<"sumDestNotFound">>, <<"sumRouteUnable">>,
   <<"sumNoPlaceName">>, <<"sumPlaceNotFound">>, <<"sumWeatherNotFetched">>}

\* a failure summary is taken as a rejection
LookupThrewOrFailed(result) == ~result.ok \/ result.summary \in SoftFailureSummaries

\* a rejection is taken as a result
LookupThrewNever(result) == FALSE

\* the awaited lookup rejected: the await throws inside handleChat
LookupThrew(result) == ~result.ok

\* the raw field is put behind the summary
SummaryWithRaw(result) == result.summary \o result.raw

\* result.summary: the one field of a result, with arrivalAirport, that
\* handleChat reads
SummaryOf(result) == result.summary

\* the weather lookup is made whatever the flight result holds
HasArrivalAlways(flightResult) == TRUE

\* flightResult.arrivalAirport is truthy
HasArrival(flightResult) == flightResult.arrival # <<>>

\* handleChat goes on without waiting for the lookup
LookupNotAwaited == TRUE

\* await: handleChat resumes when the promise of the lookup has settled
LookupAwaited == turn.collab[1].settled # CollabPending

\* the awaited collaborator lookup has settled: lines 86-112
CollabResume ==
  /\ turn.pc = "collab"
  /\ turn.collab # <<>>
  /\ LookupAwaited
  /\ LET fn == turn.collab[1].fn
         result == turn.collab[1].settled
         action == turn.toolAction.action
     IN IF LookupThrew(result)
        THEN turn' = ChatFail([turn EXCEPT !.collab = <<>>], result.err)
             /\ UNCHANGED chainVars
        ELSE IF fn = "getFlightStatus" /\ action = "weather_at_flight_arrival"
        THEN IF ~HasArrival(result)
             THEN AskGrounded([turn EXCEPT !.flight = result],
                              ToolResultLabel(action) \o SummaryOf(result))
             ELSE /\ CallCollab([turn EXCEPT !.flight = result], "getWeatherForPlace",
                                result.arrival,
                                getWeatherForPlacePreflight(result.arrival))
                  /\ UNCHANGED chainVars
        ELSE IF fn = "getWeatherForPlace"
        THEN AskGrounded(turn, ToolResultLabel(action) \o SummaryOf(turn.flight) \o
                               <<"sp", "weatherAtArrival">> \o turn.flight.arrival \o
                               <<"colon", "sp">> \o SummaryOf(result))
        ELSE AskGrounded(turn, ToolResultLabel(action) \o SummaryOf(result))
  /\ UNCHANGED <<stripVars, parseVars, configVars, suspended, fl, rt, aviationKey>>

\* the Phase-1 reply is put in front of the Phase-1b reply
Phase1bResumeKeepsFirstReply ==
  /\ turn.pc = "phase1b"
  /\ LlmSettled
  /\ turn' = IF cResult.ok THEN Finish(turn, turn.firstReply \o cResult.text)
             ELSE ChatFail(turn, cResult.err)
  /\ ChainReset
  /\ UNCHANGED <<stripVars, parseVars, configVars, suspended, fl, rt, aviationKey>>

\* the Phase-1b call has settled: lines 69-71, 74-80
Phase1bResume ==
  /\ turn.pc = "phase1b"
  /\ LlmSettled
  /\ turn' = IF cResult.ok THEN Finish(turn, cResult.text)
             ELSE ChatFail(turn, cResult.err)
  /\ ChainReset
  /\ UNCHANGED <<stripVars, parseVars, configVars, suspended, fl, rt, aviationKey>>

\* a Phase-2 reply that parses to an action is asked again
Phase2ResumeReasks ==
  /\ turn.pc = "phase2"
  /\ LlmSettled
  /\ IF cResult.ok /\ parseToolAction(cResult.text) # Null
     THEN AskNatural(turn)
     ELSE /\ turn' = IF cResult.ok THEN Finish(turn, cResult.text)
                     ELSE ChatFail(turn, cResult.err)
          /\ ChainReset
  /\ UNCHANGED <<stripVars, parseVars, configVars, suspended, fl, rt, aviationKey>>

\* the Phase-2 call has settled: lines 138-139
Phase2Resume ==
  /\ turn.pc = "phase2"
  /\ LlmSettled
  /\ turn' = IF cResult.ok THEN Finish(turn, cResult.text)
             ELSE ChatFail(turn, cResult.err)
  /\ ChainReset
  /\ UNCHANGED <<stripVars, parseVars, configVars, suspended, fl, rt, aviationKey>>

\* ======================================================= SpecStrip
\* stripToolJsonFromReply applied to a reply, and again to its own result
StripIdle ==
  /\ sIn = <<>> /\ sOut = <<>> /\ sOut2 = <<>> /\ sPc = "idle"

ParseIdle ==
  pIn = <<>> /\ pOut = Null /\ pPc = "idle" /\ pStart = 0 /\ pScan = <<>>

ChainIdle ==
  /\ cMsgs = <<>> /\ cPc = "idle" /\ cProviders = <<>> /\ cIdx = 0
  /\ cInflight = <<>> /\ cLog = <<>> /\ cLastError = NoValue /\ cResult = NoValue

InitStrip ==
  /\ sIn \in StripInputs
  /\ sOut = <<>> /\ sOut2 = <<>> /\ sPc = "ready"
  /\ ParseIdle
  /\ primary = "unset" /\ geminiKey = FALSE /\ openaiKey = FALSE
  /\ ChainIdle
  /\ ChatIdle

StripOnce ==
  /\ sPc = "ready"
  /\ sOut' = stripToolJsonFromReply(sIn)
  /\ sPc' = "once"
  /\ UNCHANGED <<sIn, sOut2, parseVars, configVars, suspended, fl, rt, chainVars, chatVars>>

StripTwice ==
  /\ sPc = "once"
  /\ sOut2' = stripToolJsonFromReply(sOut)
  /\ sPc' = "twice"
  /\ UNCHANGED <<sIn, sOut, parseVars, configVars, suspended, fl, rt, chainVars, chatVars>>

NextStrip == StripOnce \/ StripTwice

SpecStrip == InitStrip /\ [][NextStrip]_vars

\* ======================================================= SpecParse
\* parseToolAction applied to a reply
InitParse ==
  /\ StripIdle
  /\ pIn \in ParseInputs
  /\ pOut = Null /\ pPc = "ready" /\ pStart = 0 /\ pScan = <<>>
  /\ primary = "unset" /\ geminiKey = FALSE /\ openaiKey = FALSE
  /\ ChainIdle
  /\ ChatIdle

\* parseToolAction up to the head of the extraction loop: the whole-string
\* attempt, the cheap rejection, and the first lastIndexOf
ParseCall ==
  /\ pPc = "ready"
  /\ LET trimmed == Trim(pIn)
         result == WholeStringAttempt(trimmed)
         start == LastIndexOfBrace(trimmed, Len(trimmed))
     IN IF result # Null
        THEN pOut' = result /\ pPc' = "parsed" /\ pStart' = pStart
        ELSE IF ~IncludesQuotedAction(trimmed) \/ start = 0
        THEN pOut' = Null /\ pPc' = "parsed" /\ pStart' = pStart
        ELSE pOut' = pOut /\ pPc' = "scan" /\ pStart' = start
  /\ UNCHANGED <<pIn, pScan, stripVars, configVars, suspended, fl, rt, chainVars,
                 chatVars>>

\* one pass of the extraction loop: the candidate that starts at pStart, then
\* the break at the first character, then the next lastIndexOf
ScanStep ==
  /\ pPc = "scan"
  /\ pScan' = Append(pScan, pStart)
  /\ LET trimmed == Trim(pIn)
         result == CandidateResult(trimmed, pStart)
         next == LastIndexOfBrace(trimmed, pStart - 1)
     IN IF result # Null
        THEN pOut' = result /\ pPc' = "parsed" /\ pStart' = pStart
        ELSE IF ScanStops(pStart) \/ next = 0
        THEN pOut' = Null /\ pPc' = "parsed" /\ pStart' = pStart
        ELSE pOut' = pOut /\ pPc' = "scan" /\ pStart' = next
  /\ UNCHANGED <<pIn, stripVars, configVars, suspended, fl, rt, chainVars, chatVars>>

NextParse == ParseCall \/ ScanStep

SpecParse == InitParse /\ [][NextParse]_vars

\* ======================================================= SpecChain
\* one call of MultiLlmClient.generateReply
InitChain ==
  /\ StripIdle
  /\ ParseIdle
  /\ primary \in PrimarySettings
  /\ geminiKey \in BOOLEAN
  /\ openaiKey \in BOOLEAN
  /\ ChainIdle
  /\ ChatIdle

ChainCall ==
  /\ cPc = "idle"
  /\ \E msgs \in Conversations : ChainEnter(msgs)
  /\ UNCHANGED <<stripVars, parseVars, configVars, suspended, fl, rt, chatVars>>

ChainInvokeStep == ChainInvoke /\ UNCHANGED <<stripVars, parseVars, configVars, suspended, fl, rt, chatVars>>

ChainSettleStep ==
  /\ \E http \in HttpOutcomes : ChainSettle(http)
  /\ UNCHANGED <<stripVars, parseVars, configVars, suspended, fl, rt, chatVars>>

ChainResumeStep == ChainResume /\ UNCHANGED <<stripVars, parseVars, configVars, suspended, fl, rt, chatVars>>

ChainExhaustedStep == ChainExhausted /\ UNCHANGED <<stripVars, parseVars, configVars, suspended, fl, rt, chatVars>>

NextChain ==
  \/ ChainCall
  \/ ChainInvokeStep
  \/ ChainSettleStep
  \/ ChainResumeStep
  \/ ChainExhaustedStep

SpecChain == InitChain /\ [][NextChain]_vars

\* every backend attempt terminates and every continuation of the call runs
SpecChainFair == SpecChain /\ WF_vars(NextChain)

\* ============================================================ Spec
\* one chat turn: ChatService.handleChat with the injected backend client
\* and the collaborator services
Init ==
  /\ StripIdle
  /\ ParseIdle
  /\ primary \in PrimarySettings
  /\ geminiKey \in BOOLEAN
  /\ openaiKey \in BOOLEAN
  /\ ChainIdle
  /\ aviationKey \in BOOLEAN
  /\ turn = IdleTurn
  /\ suspended = IdleLocals
  /\ fl = FlightIdle
  /\ rt = RouteIdle

Next ==
  \/ HandleChat
  \/ ChainInvokeStep
  \/ ChainSettleStep
  \/ ChainResumeStep
  \/ ChainExhaustedStep
  \/ Phase1Resume
  \/ FlightSettle
  \/ RouteSettle
  \/ PlaceSettle
  \/ CollabResume
  \/ Phase1bResume
  \/ Phase2Resume

Spec == Init /\ [][Next]_vars

\* ====================================================== SpecFlight
\* one call of AviationstackService.getFlightStatus
FlightNumbers ==
  {Undefined, NonString} \cup {Str(t) : t \in SeqsUpTo(FlightChars, MaxLen)}

InitFlight ==
  /\ StripIdle
  /\ ParseIdle
  /\ primary = "unset" /\ geminiKey = FALSE /\ openaiKey = FALSE
  /\ ChainIdle
  /\ aviationKey \in BOOLEAN
  /\ turn = IdleTurn
  /\ suspended = IdleLocals
  /\ fl \in {[FlightIdle EXCEPT !.pc = "ready", !.flight_number = n] : n \in FlightNumbers}
  /\ rt = RouteIdle

\* getFlightStatus runs up to its HTTP request, or to its end when it sends none
GetFlightStatusCall ==
  /\ fl.pc = "ready"
  /\ LET r == getFlightStatusStart(fl.flight_number, aviationKey)
     IN fl' = IF r = CollabPending
              THEN [fl EXCEPT !.pc = "pending",
                              !.requests = <<[flight_iata |-> FlightIata(fl.flight_number)]>>]
              ELSE [fl EXCEPT !.pc = IF r.ok THEN "returned" ELSE "thrown",
                              !.result = r]
  /\ UNCHANGED <<stripVars, parseVars, configVars, suspended, rt, chainVars, chatVars>>

\* the HTTP request completes and getFlightStatus runs to its end
GetFlightStatusResponse ==
  /\ fl.pc = "pending"
  /\ \E o \in FlightOutcomes :
       LET r == getFlightStatusResult(o)
       IN fl' = [fl EXCEPT !.pc = IF r.ok THEN "returned" ELSE "thrown",
                           !.response = o, !.result = r]
  /\ UNCHANGED <<stripVars, parseVars, configVars, suspended, rt, chainVars, chatVars>>

NextFlight == GetFlightStatusCall \/ GetFlightStatusResponse

SpecFlight == InitFlight /\ [][NextFlight]_vars

\* ======================================================= SpecRoute
\* one call of OpenMeteoService.getRouteWeather, with its four requests
RouteSides == {"origin", "dest"}

InitRoute ==
  /\ StripIdle
  /\ ParseIdle
  /\ primary = "unset" /\ geminiKey = FALSE /\ openaiKey = FALSE
  /\ ChainIdle
  /\ aviationKey = FALSE
  /\ turn = IdleTurn
  /\ suspended = IdleLocals
  /\ fl = FlightIdle
  /\ rt \in {[RouteIdle EXCEPT !.pc = "ready", !.origin_city = o,
                                !.destination_city = d] : o, d \in CityNames}

RouteUnchanged ==
  UNCHANGED <<stripVars, parseVars, configVars, suspended, fl, chainVars, chatVars>>

\* getRouteWeather runs to its end for a missing name, or sends both
\* geocoding requests and awaits them
GetRouteWeatherCall ==
  /\ rt.pc = "ready"
  /\ LET r == getRouteWeatherStart(rt.origin_city, rt.destination_city)
     IN rt' = IF r = CollabPending
              THEN [rt EXCEPT !.pc = "geocoding",
                              !.geo = [origin |-> "pending", dest |-> "pending"]]
              ELSE [rt EXCEPT !.pc = "returned", !.result = r]
  /\ RouteUnchanged

\* one of the geocoding requests completes
GeocodeResponse ==
  /\ \E side \in RouteSides, o \in GeocodeOutcomes :
       /\ rt.geo[side] = "pending"
       /\ rt' = [rt EXCEPT !.geo[side] = geocodeCity(o),
                           !.responses = Append(@, [req |-> "geocode", side |-> side,
                                                    outcome |-> o])]
  /\ RouteUnchanged

\* both geocodings have settled: a city was not found, or both forecast
\* requests are sent and awaited
RouteGeocoded ==
  /\ rt.pc = "geocoding"
  /\ rt.geo.origin # "pending" /\ rt.geo.dest # "pending"
  /\ LET r == RouteAfterGeocode(rt.geo.origin, rt.geo.dest)
     IN rt' = IF r = CollabPending
              THEN [rt EXCEPT !.pc = "forecasting",
                              !.wx = [origin |-> "pending", dest |-> "pending"]]
              ELSE [rt EXCEPT !.pc = "returned", !.result = r]
  /\ RouteUnchanged

\* one of the forecast requests completes, possibly after getRouteWeather
\* has returned on the failure of the other
ForecastResponse ==
  /\ \E side \in RouteSides, o \in ForecastOutcomes :
       /\ rt.wx[side] = "pending"
       /\ rt' = [rt EXCEPT !.wx[side] = o,
                           !.responses = Append(@, [req |-> "forecast", side |-> side,
                                                    outcome |-> o])]
  /\ RouteUnchanged

\* Promise.all of the forecasts has settled
RouteForecasted ==
  /\ rt.pc = "forecasting"
  /\ ForecastsSettled(rt.wx)
  /\ rt' = [rt EXCEPT !.pc = "returned", !.result = RouteAfterForecast(rt.wx)]
  /\ RouteUnchanged

NextRoute ==
  \/ GetRouteWeatherCall
  \/ GeocodeResponse
  \/ RouteGeocoded
  \/ ForecastResponse
  \/ RouteForecasted

SpecRoute == InitRoute /\ [][NextRoute]_vars

\* ======================================================= SpecTurns
\* two chat turns on one service instance. A handleChat call keeps its state
\* in locals, and so does the generateReply call it awaits; the running turn
\* is the one in turn and the chain variables, the other one is suspended.
\* The event loop may run either turn's next continuation, so the switch is
\* allowed in every state.

\* the running turn's result slot is not kept: it is the other turn's
TurnLocalsSharedResult ==
  [turn |-> turn, cMsgs |-> cMsgs, cPc |-> cPc, cProviders |-> cProviders,
   cIdx |-> cIdx, cInflight |-> cInflight, cLog |-> cLog,
   cLastError |-> cLastError, cResult |-> suspended.cResult]

\* what a suspended turn keeps: the locals of handleChat (userMessages,
\* firstReply, toolAction, flightResult, toolResultSummary) and of
\* generateReply (messages, providers, the loop position, lastError, reply)
TurnLocals ==
  [turn |-> turn, cMsgs |-> cMsgs, cPc |-> cPc, cProviders |-> cProviders,
   cIdx |-> cIdx, cInflight |-> cInflight, cLog |-> cLog,
   cLastError |-> cLastError, cResult |-> cResult]

\* the event loop runs a continuation of the other turn
SwitchTurn ==
  /\ suspended' = TurnLocals
  /\ turn' = suspended.turn
  /\ cMsgs' = suspended.cMsgs
  /\ cPc' = suspended.cPc
  /\ cProviders' = suspended.cProviders
  /\ cIdx' = suspended.cIdx
  /\ cInflight' = suspended.cInflight
  /\ cLog' = suspended.cLog
  /\ cLastError' = suspended.cLastError
  /\ cResult' = suspended.cResult
  /\ UNCHANGED <<stripVars, parseVars, configVars, aviationKey, fl, rt>>

\* the requests, replies and lookup results the two turns are run with
TurnsHistories == {h \in ChatHistories : Len(h) \in 1..MaxHistory}

TurnsTexts ==
  { <<"w">>,
    <<"open", "none", "rb">>,
    <<"open", "fs", "par", "lb", "fnNum", "rb", "rb">>,
    <<"open", "rw", "par", "lb", "cities", "rb", "rb">>,
    <<"open", "wfa", "par", "lb", "fn", "rb", "rb">> }

TurnsHttp == {HttpNone, HttpError} \cup {HttpOk(t) : t \in TurnsTexts}

TurnsSummaries ==
  { <<"sumFlightUnable">>, <<"sumFlight">>, <<"sumFlight", "sp", "sumArrival">>,
    <<"sumOriginNotFound">>, <<"sumOriginWeather", "sp", "sumDestWeather">>,
    <<"sumPlaceNotFound">>, <<"sumWeather">> }

TurnsInputs ==
  /\ turn.pc = "idle" \/ turn.history \in TurnsHistories
  /\ \A k \in 1..Len(cInflight) : cInflight[k].http \in TurnsHttp
  /\ \A k \in 1..Len(turn.collab) :
       \/ turn.collab[k].settled = CollabPending
       \/ turn.collab[k].settled.summary \in TurnsSummaries

InitTurns ==
  /\ StripIdle
  /\ ParseIdle
  /\ primary = "gemini"
  /\ geminiKey = TRUE
  /\ openaiKey = FALSE
  /\ ChainIdle
  /\ aviationKey = TRUE
  /\ turn = IdleTurn
  /\ suspended = IdleLocals
  /\ fl = FlightIdle
  /\ rt = RouteIdle

NextTurns ==
  \/ HandleChat /\ TurnsInputs'
  \/ ChainInvokeStep
  \/ ChainSettleStep /\ TurnsInputs'
  \/ ChainResumeStep
  \/ ChainExhaustedStep
  \/ Phase1Resume
  \/ FlightSettle /\ TurnsInputs'
  \/ RouteSettle /\ TurnsInputs'
  \/ PlaceSettle /\ TurnsInputs'
  \/ CollabResume
  \/ Phase1bResume
  \/ Phase2Resume
  \/ SwitchTurn

SpecTurns == InitTurns /\ [][NextTurns]_vars

\* ================================================================ claims
HasDuplicates(l) == \E i, j \in 1..Len(l) : i < j /\ l[i] = l[j]

\* a syntactically valid tool-action JSON object with a known action id starts
\* at position p of s
ValidToolJsonAt(s, p) ==
  /\ s[p] = "open"
  /\ \E q \in (p + 1)..Len(s), r \in (p + 2)..Len(s) :
       /\ q < r
       /\ s[q] \in KnownVals
       /\ s[r] = "rb"
       /\ \A k \in (p + 1)..(r - 1) : k # q => IsWs(s[k])

ContainsValidToolJson(s) == \E p \in 1..Len(s) : ValidToolJsonAt(s, p)

\* some substring of s matches the tool-JSON pattern: the opening brace and
\* action key, a known id, anything, a closing brace
ContainsToolJsonMatch(s) ==
  \E p \in 1..Len(s), q \in 1..Len(s), r \in 1..Len(s) :
    /\ p < q /\ q < r
    /\ s[p] = "open" /\ s[q] \in KnownVals /\ s[r] = "rb"
    /\ \A k \in (p + 1)..(q - 1) : IsWs(s[k])

\* C2: whenever the reply contains a valid tool-action JSON fragment, the
\* stripped result contains no match of the tool-JSON pattern
C2_NoLeakage ==
  (sPc # "ready" /\ ContainsValidToolJson(sIn)) => ~ContainsToolJsonMatch(sOut)

\* C3: stripping the stripped result again changes nothing
C3_Idempotent == sPc = "twice" => sOut2 = sOut

Invoked ==
  [n \in 1..Len(cLog) |-> cLog[n].id] \o [n \in 1..Len(cInflight) |-> cInflight[n].id]

AllLoggedFailed == \A n \in 1..Len(cLog) : ~cLog[n].result.ok

\* C5: the providers are attempted once each in priority order, every attempt
\* before the last one has failed, and when a provider returns, its reply is
\* the result and no later provider has been invoked
C5_FirstSuccessReturned ==
  /\ Invoked = SubSeq(cProviders, 1, Len(Invoked))
  /\ \A n \in 1..(Len(cLog) - 1) : ~cLog[n].result.ok
  /\ (cLog # <<>> /\ cLog[Len(cLog)].result.ok) =>
       /\ cPc = "returned"
       /\ cResult = cLog[Len(cLog)].result
       /\ cInflight = <<>>
  /\ cPc = "returned" => (cLog # <<>> /\ cLog[Len(cLog)].result.ok)

C5_Witness ==
  /\ cPc = "returned"
  /\ Len(cLog) = 3
  /\ ~cLog[1].result.ok
  /\ ~cLog[2].result.ok
  /\ cResult = cLog[3].result
  /\ cResult.ok

\* C6: at most one provider call of a generateReply call is in flight, and a
\* provider is in flight only when every provider before it has failed
C6_Sequential ==
  /\ Len(cInflight) <= 1
  /\ cInflight # <<>> =>
       /\ AllLoggedFailed
       /\ cInflight[1].id = cProviders[Len(cLog) + 1]

C6_Witness ==
  /\ Len(cInflight) = 1
  /\ cInflight[1].settled = NoValue
  /\ Len(cLog) = 2
  /\ AllLoggedFailed

\* C7: generateReply throws only after every provider was attempted once and
\* failed, and then it throws the error of the last provider; and when every
\* provider has failed it returns no reply
C7_AllFailedThrowsLast ==
  /\ cPc = "thrown" =>
       /\ [n \in 1..Len(cLog) |-> cLog[n].id] = cProviders
       /\ AllLoggedFailed
       /\ ~cResult.ok
       /\ cResult.err = cLog[Len(cLog)].result.err
  /\ (Len(cLog) = Len(cProviders) /\ cLog # <<>> /\ AllLoggedFailed) =>
       /\ cPc \in {"loop", "thrown"}
       /\ cPc = "loop" => (cResult = NoValue /\ ENABLED ChainExhausted)

C7_Witness ==
  /\ cPc = "thrown"
  /\ Len(cLog) = 3
  /\ cLog[1].result.err # cLog[3].result.err
  /\ cResult.err = cLog[3].result.err

IsBlankResponse(http) == http.kind = "ok" /\ (~http.hasText \/ Trim(http.text) = <<>>)

\* C8: a provider whose response text is empty or blank is recorded as failed
\* and the loop goes on to the next provider; a returned reply is never blank
C8_BlankIsFailure ==
  /\ \A n \in 1..Len(cLog) :
       IsBlankResponse(cLog[n].http) =>
         /\ ~cLog[n].result.ok
         /\ (n = Len(cLog) /\ cPc = "loop") => cIdx = n + 1
         /\ (n = Len(cLog) /\ cPc = "awaiting") => cInflight[1].id = cProviders[n + 1]
         /\ n = Len(cLog) => cPc \in {"loop", "awaiting", "thrown"}
  /\ cPc = "returned" => Trim(cResult.text) # <<>>

C8_Witness ==
  /\ cPc = "returned"
  /\ Len(cLog) >= 2
  /\ cLog[1].http.kind = "ok"
  /\ cLog[1].http.hasText
  /\ cLog[1].http.text = <<"sp">>
  /\ ~cLog[1].result.ok

\* C10: the provider list starts with the primary provider (gemini when the
\* setting is unset or unrecognized), has no provider twice and ends with mock
C10_ProviderOrder ==
  cPc # "idle" =>
    /\ cProviders # <<>>
    /\ cProviders[1] = (IF primary \in {"unset", "other"} THEN "gemini" ELSE primary)
    /\ ~HasDuplicates(cProviders)
    /\ cProviders[Len(cProviders)] = "mock"

C10_Witness ==
  /\ cPc = "loop"
  /\ primary = "openai"
  /\ cProviders = <<"openai", "gemini", "mock">>

ContainsFence(s) == \E p \in 1..Len(s) : s[p] = "fence"

\* C1: the reply a finished chat turn returns contains no valid tool-action
\* JSON object with a known action id, and no code-fence delimiter when the
\* backend text it was made from contained tool JSON
C1_ReplyHasNoToolJson ==
  (turn.pc = "done" /\ turn.hasReply) =>
    /\ ~ContainsValidToolJson(turn.reply)
    /\ ContainsToolJsonMatch(turn.raw) => ~ContainsFence(turn.reply)

\* a backend call of handleChat has failed and handleChat has not resumed yet
BackendFailurePending ==
  turn.pc \in {"phase1", "phase1b", "phase2"} /\ cPc = "thrown"

LastCall == turn.calls[Len(turn.calls)]

\* C9: when a backend call of handleChat fails, the next step of the turn is
\* its failure, with no reply and no new call; a failed turn has no reply, its
\* last call is the one that failed, and it never takes another step
C9_BackendFailureFailsTurn ==
  /\ [][BackendFailurePending =>
          /\ turn'.pc = "failed"
          /\ ~turn'.hasReply
          /\ turn'.calls = turn.calls
          /\ turn'.error = cResult.err
          /\ cPc' = "idle" /\ cInflight' = <<>>]_vars
  /\ [][turn.pc = "failed" => UNCHANGED vars]_vars
  /\ [](turn.pc = "failed" =>
          /\ ~turn.hasReply
          /\ turn.reply = <<>>
          /\ turn.collab = <<>>
          /\ cPc = "idle"
          /\ turn.error.src \notin {"getFlightStatus"} =>
               LastCall.kind \in {"llm_phase1", "llm_phase1b", "llm_phase2"})

C9_Witness ==
  /\ turn.pc = "failed"
  /\ turn.toolAction.action = "none"
  /\ Len(turn.calls) = 2
  /\ turn.calls[2].kind = "llm_phase1b"
  /\ turn.error.src = "mock"
  /\ ~turn.hasReply

\* C11: every call of generateReply that has started eventually returns a
\* reply, whatever the primary setting and whichever networked backends fail
C11_EventuallyReturns == (cPc = "loop") ~> (cPc = "returned")

\* C12: when the primary provider is mock, the failover chain is never
\* entered during a turn, no provider call is in flight or logged, every
\* backend result is the mock client's own, and the provider list of that
\* setting is the mock backend alone
C12_MockModeOffline ==
  primary = "mock" =>
    /\ cProviders = <<>>
    /\ cInflight = <<>>
    /\ cLog = <<>>
    /\ cPc \in {"idle", "returned", "thrown"}
    /\ cPc \in {"returned", "thrown"} => cResult = MockLlmClientGenerateReply(cMsgs)
    /\ getOrderedProviders(primary) = <<"mock">>

C12_Witness ==
  /\ primary = "mock"
  /\ turn.pc = "phase1"
  /\ cPc = "returned"
  /\ cResult.text[1] = "m1"
  /\ cInflight = <<>>

\* C13: parseToolAction returns nothing or an object whose action is in the
\* closed set, and returns nothing for a reply that holds no known action id
C13_ClosedActionSet ==
  pPc = "parsed" =>
    /\ pOut = Null \/ pOut.action \in TOOL_ACTION_IDS
    /\ (\A i \in 1..Len(pIn) : pIn[i] \notin KnownVals) => pOut = Null

C13_Witness ==
  /\ pPc = "parsed"
  /\ pIn = <<"w", "sp", "lb", "w", "rb", "sp", "open", "bad", "rb", "w">>
  /\ ParseObj(pIn, 7).end = 10
  /\ pOut = Null

\* the trimmed text t is, as a whole, the JSON of an object whose action is in
\* the closed set
WholeIsKnownAction(t) ==
  /\ t # <<>>
  /\ t[1] = "open"
  /\ ParseObj(t, 1).end = Len(t) + 1
  /\ t[SkipWs(t, 2)] \in KnownVals

\* C14: when the trimmed reply as a whole is the JSON of an object with a
\* known action, parseToolAction returns that object, with the params of the
\* whole object and not an object embedded in it
C14_FastPath ==
  (pPc = "parsed" /\ WholeIsKnownAction(Trim(pIn))) =>
    /\ pOut.action = ActionOf(Trim(pIn)[SkipWs(Trim(pIn), 2)])
    /\ pOut.params = ParseObj(Trim(pIn), 1).params

C14_Witness ==
  /\ pPc = "parsed"
  /\ pIn = <<"sp", "open", "fs", "par", "lb", "fn", "rb", "rb">>
  /\ pOut = [action |-> "flight_status", params |-> "fn"]

\* the brace characters of s[a..b]: an opening one in "open", "copen" and
\* "lb", a closing one in "rb" and in the string value of "fnBrace"
OpenCount(s, a, b) == Cardinality({i \in a..b : IsOpenBrace(s[i])})

CloseCount(s, a, b) == Cardinality({i \in a..b : s[i] \in {"rb", "fnBrace"}})

\* q is where the brace depth counted from p first returns to zero
ClosesAt(s, p, q) ==
  /\ OpenCount(s, p, q) = CloseCount(s, p, q)
  /\ \A r \in p..(q - 1) : OpenCount(s, p, r) > CloseCount(s, p, r)

\* the candidate that starts at p parses as a known action
ValidCandidate(s, p) ==
  /\ IsOpenBrace(s[p])
  /\ \E q \in p..Len(s) :
       /\ ClosesAt(s, p, q)
       /\ s[q] = "rb"
       /\ WholeIsKnownAction(SubSeq(s, p, q))

\* the object of the valid candidate with the rightmost opening brace
RightmostCandidate(s) ==
  IF \A p \in 1..Len(s) : ~ValidCandidate(s, p) THEN Null
  ELSE LET p == CHOOSE x \in 1..Len(s) :
                  /\ ValidCandidate(s, x)
                  /\ \A y \in (x + 1)..Len(s) : ~ValidCandidate(s, y)
       IN [action |-> ActionOf(s[SkipWs(s, p + 1)]), params |-> ParseObj(s, p).params]

\* a complete JSON object with a known action starts at p
KnownActionObjectAt(s, p) ==
  /\ s[p] = "open"
  /\ ParseObj(s, p).end # 0
  /\ s[SkipWs(s, p + 1)] \in KnownVals

HasBraceInString(s, a, b) == \E i \in a..b : s[i] = "fnBrace"

\* C15 as stated: when the whole reply is not a known action, the result is
\* the valid candidate with the rightmost opening brace, and a known action
\* that follows prose is always extracted
C15_EmbeddedExtraction ==
  (pPc = "parsed" /\ ~WholeIsKnownAction(Trim(pIn))) =>
    /\ pOut = RightmostCandidate(Trim(pIn))
    /\ (\E p \in 1..Len(pIn) : KnownActionObjectAt(pIn, p)) => pOut # Null

\* C15 amended: the same, where a known action that follows prose is
\* extracted when no string value inside it holds a brace
C15_EmbeddedExtractionAmended ==
  (pPc = "parsed" /\ ~WholeIsKnownAction(Trim(pIn))) =>
    /\ pOut = RightmostCandidate(Trim(pIn))
    /\ (\E p \in 1..Len(pIn) :
          /\ KnownActionObjectAt(pIn, p)
          /\ ~HasBraceInString(pIn, p, ParseObj(pIn, p).end - 1)) => pOut # Null

C15_Witness ==
  /\ pPc = "parsed"
  /\ pIn = <<"w", "sp", "lb", "w", "rb", "sp", "open", "none", "par", "open", "fs", "rb", "rb", "lb">>
  /\ ~WholeIsKnownAction(Trim(pIn))
  /\ ValidCandidate(pIn, 7)
  /\ ValidCandidate(pIn, 10)
  /\ pOut = [action |-> "flight_status", params |-> "absent"]

\* the text starts with an opening brace and contains the word action
StartsWithBraceAndHasAction(text) ==
  /\ Trim(text) # <<>>
  /\ Trim(text)[1] \in {"open", "copen", "lb"}
  /\ \E i \in 1..Len(text) : text[i] \in {"act", "open", "copen"}

\* the Phase-1 call has returned text and handleChat has not resumed yet
Phase1Returned == turn.pc = "phase1" /\ cPc = "returned"

\* C16: when the Phase-1 reply parses to no action and does not both start
\* with a brace and contain "action", the next step of the turn returns the
\* stripped Phase-1 reply, with the Phase-1 call as the only call of the turn
C16_PlainTextBranch ==
  /\ [][(/\ Phase1Returned
         /\ parseToolAction(cResult.text) = Null
         /\ ~StartsWithBraceAndHasAction(cResult.text)) =>
          /\ turn'.pc = "done"
          /\ turn'.hasReply
          /\ turn'.reply = stripToolJsonFromReply(cResult.text)
          /\ turn'.calls = turn.calls
          /\ Len(turn.calls) = 1
          /\ turn.calls[1].kind = "llm_phase1"
          /\ cPc' = "idle"]_vars
  /\ [](turn.pc = "done" /\ Len(turn.calls) = 1 =>
          /\ parseToolAction(turn.firstReply) = Null
          /\ ~StartsWithBraceAndHasAction(turn.firstReply)
          /\ turn.reply = stripToolJsonFromReply(turn.firstReply))

C16_Witness ==
  /\ turn.pc = "done"
  /\ turn.firstReply = <<"w", "open", "fence", "fence", "none", "rb">>
  /\ parseToolAction(turn.firstReply) = Null
  /\ turn.reply = <<"w", "open", "none", "rb">>
  /\ Len(turn.calls) = 1

\* the Phase-1b call has returned text and handleChat has not resumed yet
Phase1bReturned == turn.pc = "phase1b" /\ cPc = "returned"

\* C17: when the Phase-1 reply parses to no action but starts with a brace and
\* contains "action", the next step of the turn is the Phase-1b call, with no
\* reply and no collaborator call, and the turn then returns the stripped
\* Phase-1b reply
C17_MalformedToolBranch ==
  /\ [][(/\ Phase1Returned
         /\ parseToolAction(cResult.text) = Null
         /\ StartsWithBraceAndHasAction(cResult.text)) =>
          /\ turn'.pc = "phase1b"
          /\ ~turn'.hasReply
          /\ Len(turn'.calls) = 2
          /\ turn'.calls[1] = turn.calls[1]
          /\ turn'.calls[2].kind = "llm_phase1b"]_vars
  /\ [][(Phase1bReturned /\ parseToolAction(turn.firstReply) = Null) =>
          /\ turn'.pc = "done"
          /\ turn'.hasReply
          /\ turn'.reply = stripToolJsonFromReply(cResult.text)
          /\ turn'.calls = turn.calls]_vars

C17_Witness ==
  /\ turn.pc = "done"
  /\ turn.firstReply = <<"open", "bad", "rb">>
  /\ parseToolAction(turn.firstReply) = Null
  /\ Len(turn.calls) = 2
  /\ turn.calls[2].kind = "llm_phase1b"
  /\ turn.raw = <<"w">>
  /\ turn.reply = <<"w">>

\* C18: when the Phase-1 reply parses to the action none, the next step of
\* the turn is the Phase-1b call, with no reply and no collaborator call, and
\* the turn then returns the stripped Phase-1b reply after exactly these two
\* backend calls
C18_NoneBranch ==
  /\ [][(Phase1Returned /\ parseToolAction(cResult.text).action = "none") =>
          /\ turn'.pc = "phase1b"
          /\ ~turn'.hasReply
          /\ turn'.collab = <<>>
          /\ Len(turn'.calls) = 2
          /\ turn'.calls[1] = turn.calls[1]
          /\ turn'.calls[2].kind = "llm_phase1b"]_vars
  /\ [][(Phase1bReturned /\ turn.toolAction.action = "none") =>
          /\ turn'.pc = "done"
          /\ turn'.hasReply
          /\ turn'.raw = cResult.text
          /\ turn'.reply = stripToolJsonFromReply(cResult.text)
          /\ turn'.calls = turn.calls]_vars
  /\ [](turn.toolAction.action = "none" =>
          /\ turn.pc \in {"phase1b", "done", "failed"}
          /\ Len(turn.calls) = 2
          /\ turn.calls[1].kind = "llm_phase1"
          /\ turn.calls[2].kind = "llm_phase1b")

C18_Witness ==
  /\ turn.pc = "done"
  /\ turn.firstReply = <<"w", "sp", "fence", "open", "none", "rb", "w", "fence", "w">>
  /\ turn.toolAction.action = "none"
  /\ Len(turn.calls) = 2
  /\ turn.raw = <<"w">>
  /\ turn.reply = <<"w">>

\* the collaborator that answers an action, and the label of its TOOL_RESULT
LookupOf(action) ==
  IF action = "route_weather" THEN "getRouteWeather" ELSE "getFlightStatus"

LabelOf(action) ==
  CASE action = "flight_status" -> "toolResultFs"
    [] action = "route_weather" -> "toolResultRw"
    [] action = "weather_at_flight_arrival" -> "toolResultWfa"

IsSuffix(a, b) == Len(a) <= Len(b) /\ SubSeq(b, Len(b) - Len(a) + 1, Len(b)) = a

\* the awaited lookup has returned a result and no further lookup follows it
LastLookupReturned ==
  /\ turn.pc = "collab"
  /\ turn.collab # <<>>
  /\ turn.collab[1].settled.ok
  /\ ~(/\ turn.collab[1].fn = "getFlightStatus"
       /\ turn.toolAction.action = "weather_at_flight_arrival"
       /\ turn.collab[1].settled.arrival # <<>>)

ToolActions == {"flight_status", "route_weather", "weather_at_flight_arrival"}

\* C19: when the Phase-1 reply parses to a known action other than none, the
\* next step of the turn calls the lookup of that action; when the last lookup
\* has returned, the next step is the Phase-2 call, whose conversation ends
\* with the assistant message TOOL_RESULT <action>: <summary> and the user
\* instruction; when that call returns, the turn returns its stripped reply
C19_ToolBranch ==
  /\ [][(Phase1Returned /\ parseToolAction(cResult.text).action \in ToolActions) =>
          /\ turn'.pc = "collab"
          /\ ~turn'.hasReply
          /\ Len(turn'.collab) = 1
          /\ turn'.collab[1].fn = LookupOf(parseToolAction(cResult.text).action)
          /\ Len(turn'.calls) = Len(turn.calls) + 1
          /\ turn'.calls[Len(turn'.calls)].kind = turn'.collab[1].fn
          /\ cPc' = "idle"]_vars
  /\ [][LastLookupReturned =>
          /\ turn'.pc = "phase2"
          /\ ~turn'.hasReply
          /\ turn.toolAction.action \in ToolActions
          /\ Len(turn'.calls) = Len(turn.calls) + 1
          /\ LET call == turn'.calls[Len(turn'.calls)]
                 n == Len(call.msgs)
             IN /\ call.kind = "llm_phase2"
                /\ cMsgs' = call.msgs
                /\ n >= 3
                /\ call.msgs[n] = Msg("user", <<"instruction">>)
                /\ call.msgs[n - 1].role = "assistant"
                /\ call.msgs[n - 1].content[1] = LabelOf(turn.toolAction.action)
                /\ IsSuffix(turn.collab[1].settled.summary, call.msgs[n - 1].content)]_vars
  /\ [][(turn.pc = "phase2" /\ cPc = "returned") =>
          /\ turn'.pc = "done"
          /\ turn'.hasReply
          /\ turn'.reply = stripToolJsonFromReply(cResult.text)
          /\ turn'.calls = turn.calls]_vars

C19_Witness ==
  /\ turn.pc = "done"
  /\ turn.toolAction = [action |-> "route_weather", params |-> "cities"]
  /\ Len(turn.calls) = 3
  /\ turn.calls[2].kind = "getRouteWeather"
  /\ turn.calls[3].kind = "llm_phase2"
  /\ turn.toolResultSummary = <<"toolResultRw", "sumOriginWeather", "sp", "sumDestWeather">>
  /\ turn.raw = <<"w", "nl", "open", "rw", "rb">>
  /\ turn.reply = <<"w">>

\* the lexemes a backend reply can hold, the blank ones aside
ReplyLexemes ==
  (UNION {{t[i] : i \in 1..Len(t)} : t \in BackendTexts} \cup {"m1", "m2", "m3", "m4", "m5"})
    \ {"sp", "nl"}

CallerHistory == {turn.history[i] : i \in 1..Len(turn.history)}

\* the messages the conversation of a later call may hold
AllowedLater(call) ==
  IF call.kind = "llm_phase1b"
  THEN {Msg("system", <<"prompt", "nlOnly">>)} \cup CallerHistory
  ELSE {Msg("system", <<"prompt">>), Msg("user", <<"instruction">>),
        Msg("assistant", turn.toolResultSummary)} \cup CallerHistory

\* C20: every message of a Phase-1b or Phase-2 conversation is the system
\* prompt of that phase, a message of the caller's history or, in Phase 2, the
\* TOOL_RESULT message or the instruction; the TOOL_RESULT text holds no word
\* of a backend reply
C20_FirstReplyNotResent ==
  \A k \in 1..Len(turn.calls) :
    turn.calls[k].kind \in {"llm_phase1b", "llm_phase2"} =>
      /\ k >= 2
      /\ \A i \in 1..Len(turn.calls[k].msgs) :
           turn.calls[k].msgs[i] \in AllowedLater(turn.calls[k])
      /\ turn.calls[k].msgs[1].role = "system"
      /\ turn.calls[k].kind = "llm_phase2" =>
           \A j \in 1..Len(turn.toolResultSummary) :
             turn.toolResultSummary[j] \notin ReplyLexemes

C20_Witness ==
  /\ turn.pc = "done"
  /\ turn.firstReply = <<"open", "wfa", "par", "lb", "fn", "rb", "rb">>
  /\ Len(turn.history) = 2
  /\ Len(turn.calls) = 4
  /\ turn.calls[4].kind = "llm_phase2"
  /\ Len(turn.calls[4].msgs) >= 5
  /\ \A i \in 1..Len(turn.calls[4].msgs) : turn.calls[4].msgs[i].content # turn.firstReply

IsLlmCall(call) == call.kind \in {"llm_phase1", "llm_phase1b", "llm_phase2"}

SystemPromptOf(call) ==
  CASE call.kind = "llm_phase1" -> <<"promptTools">>
    [] call.kind = "llm_phase1b" -> <<"prompt", "nlOnly">>
    [] call.kind = "llm_phase2" -> <<"prompt">>

NotSystem(m) == m.role # "system"

\* the messages of a conversation after index 0 that are not the system
\* message, without the two messages Phase 2 appends
HistoryPart(call) ==
  LET rest == SelectSeq(Tail(call.msgs), NotSystem)
  IN IF call.kind = "llm_phase2" THEN SubSeq(rest, 1, Len(rest) - 2) ELSE rest

\* C21: in every conversation sent to the backend the system message of the
\* phase is at index 0 and the caller-history messages after it are a suffix
\* of the caller's history, in order, at most MAX_MESSAGES of them
C21_ConversationWindow ==
  \A k \in 1..Len(turn.calls) :
    IsLlmCall(turn.calls[k]) =>
      /\ turn.calls[k].msgs[1] = Msg("system", SystemPromptOf(turn.calls[k]))
      /\ IsSuffix(HistoryPart(turn.calls[k]), turn.history)
      /\ Len(HistoryPart(turn.calls[k])) <= MAX_MESSAGES

C21_Witness ==
  /\ turn.pc = "phase2"
  /\ Len(turn.history) = MAX_MESSAGES + 1
  /\ Len(turn.calls[1].msgs) = MAX_MESSAGES + 1
  /\ turn.calls[1].msgs[2] = turn.history[2]
  /\ Len(turn.calls[3].msgs) = MAX_MESSAGES + 1
  /\ turn.calls[3].msgs[2] = turn.history[4]
  /\ HistoryPart(turn.calls[3]) = SubSeq(turn.history, 4, 13)

WeatherCalls == {k \in 1..Len(turn.calls) : turn.calls[k].kind = "getWeatherForPlace"}

FlightLookupReturned ==
  /\ turn.pc = "collab"
  /\ turn.collab # <<>>
  /\ turn.collab[1].fn = "getFlightStatus"
  /\ turn.toolAction.action = "weather_at_flight_arrival"
  /\ turn.collab[1].settled.ok

WeatherLookupReturned ==
  /\ turn.pc = "collab"
  /\ turn.collab # <<>>
  /\ turn.collab[1].fn = "getWeatherForPlace"
  /\ turn.collab[1].settled.ok

\* C22: for weather_at_flight_arrival the first lookup is the flight lookup,
\* and a weather lookup is in the call log only after the flight lookup has
\* returned a non-empty arrival location, once, right after the flight lookup,
\* with that location as its argument; when the flight lookup returns without
\* an arrival location the next step is the Phase-2 call with the flight
\* summary as the tool summary and no weather lookup; when it returns with
\* one the next step is the weather lookup and nothing else; when the weather
\* lookup returns the tool summary is the flight summary, the arrival label
\* and the weather summary
C22_WeatherAtArrivalDispatch ==
  /\ [](/\ (turn.toolAction.action = "weather_at_flight_arrival" /\ Len(turn.calls) >= 2) =>
            turn.calls[2].kind = "getFlightStatus"
        /\ WeatherCalls # {} =>
            /\ turn.toolAction.action = "weather_at_flight_arrival"
            /\ WeatherCalls = {3}
            /\ turn.flight.ok
            /\ turn.flight.arrival # <<>>
            /\ turn.calls[3].msgs = <<Msg("arg", turn.flight.arrival)>>)
  /\ [][(FlightLookupReturned /\ turn.collab[1].settled.arrival = <<>>) =>
          /\ turn'.pc = "phase2"
          /\ turn'.calls[Len(turn'.calls)].kind = "llm_phase2"
          /\ turn'.toolResultSummary =
               <<"toolResultWfa">> \o turn.collab[1].settled.summary
          /\ \A k \in 1..Len(turn'.calls) : turn'.calls[k].kind # "getWeatherForPlace"]_vars
  /\ [][(FlightLookupReturned /\ turn.collab[1].settled.arrival # <<>>) =>
          /\ turn'.pc = "collab"
          /\ turn'.calls = Append(turn.calls,
               CallRecord("getWeatherForPlace",
                          <<Msg("arg", turn.collab[1].settled.arrival)>>))
          /\ turn'.toolResultSummary = <<>>
          /\ cPc' = "idle"]_vars
  /\ [][WeatherLookupReturned =>
          /\ turn'.pc = "phase2"
          /\ Len(turn'.calls) = Len(turn.calls) + 1
          /\ turn'.calls[Len(turn'.calls)].kind = "llm_phase2"
          /\ turn'.toolResultSummary =
               <<"toolResultWfa">> \o turn.flight.summary \o
               <<"sp", "weatherAtArrival">> \o turn.flight.arrival \o
               <<"colon", "sp">> \o turn.collab[1].settled.summary]_vars
  /\ [][(turn.toolAction.action = "weather_at_flight_arrival" /\ turn.pc \in {"phase2", "done", "failed"}) =>
          turn'.calls = turn.calls]_vars

C22_Witness ==
  /\ turn.pc = "done"
  /\ turn.toolAction.action = "weather_at_flight_arrival"
  /\ Len(turn.calls) = 4
  /\ turn.calls[2].kind = "getFlightStatus"
  /\ turn.calls[3] = CallRecord("getWeatherForPlace", <<Msg("arg", <<"airport">>)>>)
  /\ turn.calls[4].kind = "llm_phase2"
  /\ turn.toolResultSummary =
       <<"toolResultWfa", "sumFlight", "sp", "sumArrival", "sp", "weatherAtArrival",
         "airport", "colon", "sp", "sumWeather">>

SoftFailureReturned ==
  /\ turn.pc = "collab"
  /\ turn.collab # <<>>
  /\ turn.collab[1].settled.ok
  /\ turn.collab[1].settled.summary \in SoftFailureSummaries

\* the tool summary ends with a failure summary
EndsWithSoftFailure(summary) ==
  \E f \in SoftFailureSummaries : IsSuffix(f, summary)

\* C23: when a lookup returns a failure summary, the next step of the turn is
\* the Phase-2 call, with no failure and no reply, and the conversation of
\* that call holds the assistant message TOOL_RESULT <action>: ... ending with
\* that summary, followed by the user instruction; when the Phase-2 call of
\* such a turn returns, the turn returns its stripped reply
C23_SoftFailureIsData ==
  /\ [][SoftFailureReturned =>
          /\ turn'.pc = "phase2"
          /\ ~turn'.hasReply
          /\ turn'.error = turn.error
          /\ Len(turn'.calls) = Len(turn.calls) + 1
          /\ EndsWithSoftFailure(turn'.toolResultSummary)
          /\ IsSuffix(turn.collab[1].settled.summary, turn'.toolResultSummary)
          /\ turn'.toolResultSummary[1] = LabelOf(turn.toolAction.action)
          /\ LET call == turn'.calls[Len(turn'.calls)]
                 n == Len(call.msgs)
             IN /\ call.kind = "llm_phase2"
                /\ cMsgs' = call.msgs
                /\ n >= 3
                /\ call.msgs[n - 1] = Msg("assistant", turn'.toolResultSummary)
                /\ call.msgs[n] = Msg("user", <<"instruction">>)]_vars
  /\ [][(/\ turn.pc = "phase2"
         /\ cPc = "returned"
         /\ EndsWithSoftFailure(turn.toolResultSummary)) =>
          /\ turn'.pc = "done"
          /\ turn'.hasReply
          /\ turn'.raw = cResult.text
          /\ turn'.reply = stripToolJsonFromReply(cResult.text)]_vars

C23_Witness ==
  /\ turn.pc = "done"
  /\ turn.toolAction.action = "flight_status"
  /\ turn.toolResultSummary = <<"toolResultFs", "sumFlightNotConfigured">>
  /\ Len(turn.calls) = 3
  /\ turn.calls[3].kind = "llm_phase2"
  /\ turn.hasReply
  /\ turn.raw = <<"w">>
  /\ turn.reply = <<"w">>

Collaborators == {"getFlightStatus", "getRouteWeather", "getWeatherForPlace"}

LookupRejected ==
  /\ turn.pc = "collab"
  /\ turn.collab # <<>>
  /\ turn.collab[1].settled # CollabPending
  /\ ~turn.collab[1].settled.ok

\* C24: when a lookup throws, the next step of the turn is its failure with
\* the error of the lookup, with no reply, no new call and no backend call
\* started; a turn failed by a lookup has no reply, no Phase-2 call, the
\* lookup that threw as its last call, and takes no further step
C24_HardFailureFailsTurn ==
  /\ [][LookupRejected =>
          /\ turn'.pc = "failed"
          /\ turn'.error = turn.collab[1].settled.err
          /\ ~turn'.hasReply
          /\ turn'.calls = turn.calls
          /\ cPc' = "idle"
          /\ cMsgs' = <<>>]_vars
  /\ []((turn.pc = "failed" /\ turn.error.src \in Collaborators) =>
          /\ ~turn.hasReply
          /\ turn.reply = <<>>
          /\ LastCall.kind = turn.error.src
          /\ \A k \in 1..Len(turn.calls) : turn.calls[k].kind # "llm_phase2"
          /\ cPc = "idle")
  /\ [][(turn.pc = "failed" /\ turn.error.src \in Collaborators) => turn' = turn]_vars

C24_Witness ==
  /\ turn.pc = "failed"
  /\ turn.error = [src |-> "getFlightStatus", kind |-> "type_error"]
  /\ turn.toolAction = [action |-> "flight_status", params |-> "fnNum"]
  /\ Len(turn.calls) = 2
  /\ turn.calls[2].kind = "getFlightStatus"
  /\ ~turn.hasReply

\* the trimmed text holds no JSON object with a known action
NoKnownAction(text) ==
  \A p \in 1..Len(Trim(text)) : ~KnownActionObjectAt(Trim(text), p)

\* the trimmed text holds a JSON object whose action is not a known one
HasUnknownAction(text) ==
  \E p \in 1..Len(Trim(text)) :
    /\ Trim(text)[p] = "open"
    /\ ParseObj(Trim(text), p).end # 0
    /\ Trim(text)[SkipWs(Trim(text), p + 1)] \notin KnownVals

\* C25: a turn fails only in a step that resumes from a backend call that
\* threw or from a lookup that threw; when the Phase-1 reply holds no object
\* with a known action, whether it holds none at all or one with an unknown
\* action, the parsed action is null and the next step of the turn is the
\* return of the stripped reply or, for a reply that starts with a brace and
\* contains "action", the Phase-1b call; it is never a failure or a lookup
C25_UnknownActionIsNoAction ==
  /\ [][(turn.pc # "failed" /\ turn'.pc = "failed") =>
          /\ BackendFailurePending \/ LookupRejected
          /\ turn'.error.src # ""]_vars
  /\ [][(Phase1Returned /\ NoKnownAction(cResult.text)) =>
          /\ turn'.toolAction = Null
          /\ turn'.error = turn.error
          /\ turn'.collab = <<>>
          /\ IF StartsWithBraceAndHasAction(cResult.text)
             THEN /\ turn'.pc = "phase1b"
                  /\ ~turn'.hasReply
                  /\ turn'.calls[Len(turn'.calls)].kind = "llm_phase1b"
             ELSE /\ turn'.pc = "done"
                  /\ turn'.reply = stripToolJsonFromReply(cResult.text)
                  /\ turn'.calls = turn.calls]_vars

C25_Witness ==
  /\ turn.pc = "done"
  /\ turn.firstReply = <<"w", "sp", "open", "bad", "rb">>
  /\ HasUnknownAction(turn.firstReply)
  /\ NoKnownAction(turn.firstReply)
  /\ turn.toolAction = Null
  /\ Len(turn.calls) = 1
  /\ turn.hasReply
  /\ turn.error.src = ""

\* the lexemes that hold the text TOOL_RESULT
ToolResultLexemes == {"toolResultFs", "toolResultRw", "toolResultWfa"}

\* C26: when Phase 1 gave a flight_status action and the flight lookup
\* returned a summary, the reply the turn returns holds no TOOL_RESULT text,
\* no quoted "action" and no code-fence delimiter, whatever the Phase-2
\* backend call returned
C26_GroundedReplyClean ==
  (/\ turn.pc = "done"
   /\ turn.toolAction.action = "flight_status"
   /\ turn.toolResultSummary # <<>>
   /\ turn.toolResultSummary[1] = "toolResultFs") =>
    \A i \in 1..Len(turn.reply) :
      /\ turn.reply[i] \notin ToolResultLexemes
      /\ ~HasQuotedAction(turn.reply[i])
      /\ turn.reply[i] # "fence"

\* a backend call of the turn has started and has neither returned nor thrown
BackendInFlight == cPc \in {"loop", "awaiting"}

\* a lookup of the turn has been called and handleChat has not resumed from it
LookupActive == turn.collab # <<>>

\* the last call of the log has resolved
LastCallResolved ==
  \/ turn.calls = <<>>
  \/ IsLlmCall(LastCall) /\ cPc = "returned"
  \/ LastCall.kind \in Collaborators /\ LookupActive /\ turn.collab[1].settled.ok

\* C27: the calls of a chat turn are made one after the other: no backend
\* call is in flight while a lookup is active, at most one request of a
\* backend call and at most one lookup are out at a time, a call in flight is
\* the last of the call log, a new call is added to the log only when the
\* previous one has resolved, and handleChat takes no step while the call it
\* awaits is in flight
C27_CallsAreSequential ==
  /\ [](/\ ~(BackendInFlight /\ LookupActive)
        /\ Len(cInflight) <= 1
        /\ Len(turn.collab) <= 1
        /\ BackendInFlight =>
             (turn.pc \in {"phase1", "phase1b", "phase2"} /\ IsLlmCall(LastCall)
              /\ cMsgs = LastCall.msgs)
        /\ LookupActive =>
             (turn.pc = "collab" /\ LastCall.kind = turn.collab[1].fn))
  /\ [][Len(turn'.calls) # Len(turn.calls) =>
          /\ Len(turn'.calls) = Len(turn.calls) + 1
          /\ SubSeq(turn'.calls, 1, Len(turn.calls)) = turn.calls
          /\ LastCallResolved]_vars
  /\ [][(BackendInFlight \/ (LookupActive /\ turn.collab[1].settled = CollabPending)) =>
          /\ turn'.pc = turn.pc
          /\ turn'.calls = turn.calls
          /\ turn'.hasReply = turn.hasReply]_vars

C27_Witness ==
  /\ turn.pc = "phase2"
  /\ cPc = "awaiting"
  /\ Len(cInflight) = 1
  /\ Len(cLog) = 1
  /\ turn.collab = <<>>
  /\ Len(turn.calls) = 4
  /\ turn.calls[2].kind = "getFlightStatus"
  /\ turn.calls[3].kind = "getWeatherForPlace"

\* what the two turns share: the configuration the service instances read
Shared == <<primary, geminiKey, openaiKey, aviationKey>>

\* the state of one turn, running or suspended, is made of its own request,
\* its own backend responses and its own lookup results
TurnConsistent(L) ==
  /\ L.cPc = "returned" =>
       (L.cLog # <<>> /\ L.cResult = L.cLog[Len(L.cLog)].result)
  /\ L.cPc = "thrown" =>
       (L.cLog # <<>> /\ L.cResult.err = L.cLog[Len(L.cLog)].result.err)
  /\ L.cPc # "idle" =>
       /\ L.turn.pc \in {"phase1", "phase1b", "phase2"}
       /\ L.cMsgs = L.turn.calls[Len(L.turn.calls)].msgs
  /\ \A k \in 1..Len(L.cLog) : L.cLog[k].http \in TurnsHttp
  /\ \A k \in 1..Len(L.turn.calls) :
       LET call == L.turn.calls[k]
       IN IsLlmCall(call) =>
            /\ IsSuffix(HistoryPart(call), L.turn.history)
            /\ call.kind = "llm_phase2" =>
                 call.msgs[Len(call.msgs) - 1] = Msg("assistant", L.turn.toolResultSummary)
  /\ L.turn.toolAction = parseToolAction(L.turn.firstReply)
  /\ L.turn.hasReply => L.turn.reply = stripToolJsonFromReply(L.turn.raw)
  /\ L.turn.pc = "idle" => L = IdleLocals

\* the running turn, written as a suspended one is
RunningTurn ==
  [turn |-> turn, cMsgs |-> cMsgs, cPc |-> cPc, cProviders |-> cProviders,
   cIdx |-> cIdx, cInflight |-> cInflight, cLog |-> cLog,
   cLastError |-> cLastError, cResult |-> cResult]

\* C28: with two chat turns interleaved at any point, what the turns share is
\* never written; a step of the running turn leaves the suspended turn as it
\* is, and the switch hands each turn back exactly the state it was suspended
\* with; the conversations, the parsed action, the tool summary and the reply
\* of each turn are made of its own request and of the responses to its own
\* calls
C28_TurnsIsolated ==
  /\ [][Shared' = Shared]_vars
  /\ [][suspended' # suspended =>
          (suspended' = RunningTurn /\ RunningTurn' = suspended)]_vars
  /\ [](TurnConsistent(RunningTurn) /\ TurnConsistent(suspended))

C28_Witness ==
  /\ turn.pc = "phase2"
  /\ cPc = "awaiting"
  /\ suspended.turn.pc = "collab"
  /\ suspended.turn.collab[1].settled = CollabPending
  /\ suspended.turn.history # turn.history
  /\ suspended.turn.toolAction # turn.toolAction
  /\ Len(suspended.turn.calls) = 3

\* the flight number is missing or holds nothing but spaces
FlightNumberBlank ==
  \/ fl.flight_number.kind = "undefined"
  \/ /\ fl.flight_number.kind = "string"
     /\ \A i \in 1..Len(fl.flight_number.text) : fl.flight_number.text[i] = "sp"

FlightCallDone == fl.pc \in {"pending", "returned", "thrown"}

\* C29: getFlightStatus throws only for a flight number that is not a string;
\* for a missing or blank flight number, and for a given one without an API
\* key, it returns its summary with no arrival location and sends no HTTP
\* request; when the request fails, gives an error payload or gives an empty
\* list, it returns a summary of that with no arrival location
C29_FlightStatusNeverThrows ==
  /\ fl.pc = "thrown" => fl.flight_number.kind = "number"
  /\ (FlightCallDone /\ FlightNumberBlank) =>
       /\ fl.pc = "returned"
       /\ fl.result = CollabReturned(<<"sumNoFlightNumber">>, <<>>)
       /\ fl.requests = <<>>
  /\ (FlightCallDone /\ fl.flight_number.kind = "string" /\ ~FlightNumberBlank
       /\ ~aviationKey) =>
       /\ fl.pc = "returned"
       /\ fl.result = CollabReturned(<<"sumFlightNotConfigured">>, <<>>)
       /\ fl.requests = <<>>
  /\ (FlightCallDone /\ fl.response \in {"http_error", "api_error", "no_data"}) =>
       /\ fl.pc = "returned"
       /\ fl.result.ok
       /\ fl.result.summary \in
            {<<"sumFlightUnable">>, <<"sumFlightApiError">>, <<"sumNoFlightData">>}
       /\ fl.result.arrival = <<>>
       /\ Len(fl.requests) = 1

C29_Witness ==
  /\ fl.pc = "returned"
  /\ fl.flight_number = Str(<<"sp", "lc", "uc">>)
  /\ aviationKey
  /\ fl.requests = <<[flight_iata |-> <<"uc", "uc">>]>>
  /\ fl.response = "http_error"
  /\ fl.result.summary = <<"sumFlightUnable">>
  /\ fl.result.arrival = <<>>

\* the lexemes that stand for the raw field of a lookup result
RawLexemes == {"rawPayload", "rawError"}

NoRaw(text) == \A i \in 1..Len(text) : text[i] \notin RawLexemes

\* C30: no message of a conversation sent to a backend, no tool summary and
\* no returned reply holds the raw field of a lookup result; the tool summary
\* made when the last lookup returns is the label followed by the summary of
\* the result, or by the flight summary, the arrival location and the weather
\* summary
C30_RawPayloadNotForwarded ==
  /\ [](/\ \A k \in 1..Len(turn.calls) :
             \A i \in 1..Len(turn.calls[k].msgs) : NoRaw(turn.calls[k].msgs[i].content)
        /\ \A i \in 1..Len(cMsgs) : NoRaw(cMsgs[i].content)
        /\ NoRaw(turn.toolResultSummary)
        /\ NoRaw(turn.raw)
        /\ NoRaw(turn.reply))
  /\ [][LastLookupReturned =>
          turn'.toolResultSummary \in
            { <<LabelOf(turn.toolAction.action)>> \o turn.collab[1].settled.summary,
              <<LabelOf(turn.toolAction.action)>> \o turn.flight.summary \o
                <<"sp", "weatherAtArrival">> \o turn.flight.arrival \o
                <<"colon", "sp">> \o turn.collab[1].settled.summary }]_vars

C30_Witness ==
  /\ turn.pc = "done"
  /\ turn.toolAction.action = "weather_at_flight_arrival"
  /\ turn.flight.raw = <<"rawPayload">>
  /\ turn.flight.arrival = <<"airport">>
  /\ Len(turn.calls) = 4
  /\ turn.calls[4].kind = "llm_phase2"
  /\ turn.hasReply
  /\ turn.reply # <<>>

\* ------------------------------------------------------------ C31 .. C40
IsBrace(c) == c \in {"open", "copen", "lb", "rb", "fnBrace"}

\* prose: at least one word, and no brace
IsProse(s) ==
  /\ \E i \in 1..Len(s) : s[i] \in {"w", "act"}
  /\ \A i \in 1..Len(s) : ~IsBrace(s[i])

\* a brace-balanced tool-action object with a known id and a nested params
\* object
NestedToolObjects ==
  { <<"open", a, "par", "lb">> \o inner \o <<"rb", "rb">> :
      a \in KnownVals, inner \in {<<>>, <<"fn">>, <<"cities">>} }

\* s is prose followed by one nested tool-action object
ProseThenNestedObject(s, k) ==
  /\ k \in 1..Len(s)
  /\ IsProse(SubSeq(s, 1, k))
  /\ SubSeq(s, k + 1, Len(s)) \in NestedToolObjects

\* C31: for prose without braces followed by one balanced tool-action object
\* with a known id and a nested params object, the stripped text is exactly
\* the prose trimmed
C31_NestedObjectRemoved ==
  sPc # "ready" =>
    \A k \in 1..Len(sIn) :
      ProseThenNestedObject(sIn, k) => sOut = Trim(SubSeq(sIn, 1, k))

\* the word action occurs nowhere in s
LacksActionWord(s) == \A i \in 1..Len(s) : s[i] \notin {"act", "open", "copen"}

\* C32: a text that does not contain the word action is returned exactly as
\* it is, trimmed: its typographic quotes, runs of whitespace, code fences and
\* bullet lines are all kept
C32_FastExit ==
  (sPc # "ready" /\ LacksActionWord(sIn)) => sOut = Trim(sIn)

C32_Witness ==
  /\ sPc = "once"
  /\ sIn = <<"w", "sp", "sp", "cnone", "nl", "fence">>
  /\ sOut = sIn

\* a flat tool-action object written with typographic quotes
CurlyToolObjects ==
  { <<"copen">> \o ws \o <<"cnone", "rb">> : ws \in {<<>>, <<"sp">>} }

\* s is prose and one typographic-quote object, in either order
ProseAndCurlyObject(s) ==
  \E k \in 1..(Len(s) - 1) :
    \/ IsProse(SubSeq(s, 1, k)) /\ SubSeq(s, k + 1, Len(s)) \in CurlyToolObjects
    \/ SubSeq(s, 1, k) \in CurlyToolObjects /\ IsProse(SubSeq(s, k + 1, Len(s)))

\* the same text written with plain quotes
PlainQuoted(s) ==
  [i \in 1..Len(s) |->
     IF s[i] = "copen" THEN "open" ELSE IF s[i] = "cnone" THEN "none" ELSE s[i]]

\* C33: a tool-JSON fragment written with typographic double quotes is
\* removed exactly as the same fragment written with plain quotes: for prose
\* and such a fragment the stripped text is the one obtained from the
\* plain-quoted text, and it holds neither form of the fragment
C33_CurlyQuotesRemoved ==
  (sPc # "ready" /\ ProseAndCurlyObject(sIn)) =>
    /\ sOut = stripToolJsonFromReply(PlainQuoted(sIn))
    /\ \A i \in 1..Len(sOut) :
         sOut[i] \notin {"open", "copen", "none", "cnone", "rb"}

C33_Witness ==
  /\ sPc = "once"
  /\ sIn = <<"w", "sp", "copen", "cnone", "rb">>
  /\ sOut = <<"w">>

\* the literal "action", double quotes included, occurs nowhere in s
LacksQuotedAction(s) == \A i \in 1..Len(s) : s[i] # "open"

\* C34: when the trimmed reply is not itself a valid action object and does
\* not hold the literal "action", parseToolAction returns absent and the
\* extraction loop tries no brace at all
C34_CheapRejection ==
  (pPc # "ready" /\ ~WholeIsKnownAction(Trim(pIn)) /\ LacksQuotedAction(pIn)) =>
    /\ pPc = "parsed"
    /\ pOut = Null
    /\ pScan = <<>>

C34_Witness ==
  /\ pPc = "parsed"
  /\ pIn = <<"w", "lb", "fn", "rb">>
  /\ pOut = Null
  /\ pScan = <<>>

\* the number of opening braces of s
RECURSIVE OpenBraceCount(_)
OpenBraceCount(s) ==
  IF s = <<>> THEN 0
  ELSE (IF IsOpenBrace(Head(s)) THEN 1 ELSE 0) + OpenBraceCount(Tail(s))

\* C40: parseToolAction terminates on every input: the extraction loop tries
\* each opening brace at most once, at strictly decreasing start indexes,
\* stops after the candidate at the first character, also when the text
\* starts with an opening brace or its braces are unbalanced; a pass that
\* does not end the call moves to a smaller index, and the result is the one
\* of the loop run to its end
C40_ScanTerminates ==
  /\ \A i \in 1..Len(pScan) :
       /\ pScan[i] \in 1..Len(Trim(pIn))
       /\ IsOpenBrace(Trim(pIn)[pScan[i]])
       /\ i > 1 => pScan[i] < pScan[i - 1]
  /\ Len(pScan) <= OpenBraceCount(Trim(pIn))
  /\ pPc = "scan" =>
       /\ pStart \in 1..Len(Trim(pIn))
       /\ pScan # <<>> => pStart < pScan[Len(pScan)]
  /\ \A i \in 1..Len(pScan) :
       pScan[i] = 1 => (i = Len(pScan) /\ pPc = "parsed")
  /\ pPc = "parsed" => pOut = parseToolAction(pIn)

\* a text that starts with an opening brace and never closes it: both
\* braces were tried, the one at the first character last
C40_Witness ==
  /\ pPc = "parsed"
  /\ pIn = <<"open", "none", "lb", "w">>
  /\ pScan = <<3, 1>>
  /\ pOut = Null

\* C35: in every conversation sent to a backend, whatever the length of the
\* caller's history, the system prompt occurs exactly once and only at index
\* 0 (the caller histories hold no system message)
C35_SystemPromptOnce ==
  \A k \in 1..Len(turn.calls) :
    IsLlmCall(turn.calls[k]) =>
      /\ turn.calls[k].msgs[1] = Msg("system", SystemPromptOf(turn.calls[k]))
      /\ \A i \in 2..Len(turn.calls[k].msgs) : NotSystem(turn.calls[k].msgs[i])

LlmCalls == {k \in 1..Len(turn.calls) : IsLlmCall(turn.calls[k])}

TurnEnded == turn.pc \in {"done", "failed"}

\* a Phase-1b or Phase-2 call has returned a text that holds tool JSON
LaterReplyWithToolJson ==
  /\ turn.pc \in {"phase1b", "phase2"}
  /\ cPc = "returned"
  /\ \/ parseToolAction(cResult.text) # Null
     \/ looksLikeJson(cResult.text)

SettledInFlight ==
  Cardinality({k \in 1..Len(cInflight) : cInflight[k].settled # NoValue})

SettledLookups ==
  Cardinality({k \in 1..Len(turn.collab) : turn.collab[k].settled # CollabPending})

\* a measure of how far the turn has got: the calls made, then the end of
\* the turn, then the progress of the call that is awaited
TurnProgress ==
  1000 * Len(turn.calls)
  + (IF TurnEnded THEN 500 ELSE 0)
  + 20 * cIdx + 3 * Len(cLog) + SettledInFlight
  + (IF cPc \in {"returned", "thrown"} THEN 2 ELSE 0)
  + SettledLookups

\* a turn under way is waiting for a request to complete, or has a
\* continuation ready to run
TurnCanStep ==
  \/ /\ turn.pc \in {"phase1", "phase1b", "phase2"}
     /\ \/ cPc \in {"loop", "returned", "thrown"}
        \/ cPc = "awaiting" /\ cInflight # <<>>
  \/ turn.pc = "collab" /\ Len(turn.collab) = 1

\* C36: a chat turn makes a bounded number of backend calls and always ends:
\* one generateReply call on the plain-text branch, two on every other branch
\* that returns a reply (Phase 1 then Phase 1b, or Phase 1 then Phase 2),
\* never three; a Phase-1b or Phase-2 reply that holds tool JSON is not parsed
\* and is followed by the end of the turn, with no new call; every step of a
\* turn adds to a bounded measure, and a turn that has not ended can step
C36_BoundedBackendCalls ==
  /\ [](/\ Cardinality(LlmCalls) <= 2
        /\ Len(turn.calls) <= 4
        /\ turn.pc = "done" =>
             IF parseToolAction(turn.firstReply) = Null /\ ~looksLikeJson(turn.firstReply)
             THEN /\ Cardinality(LlmCalls) = 1
                  /\ turn.calls[1].kind = "llm_phase1"
             ELSE /\ Cardinality(LlmCalls) = 2
                  /\ turn.calls[1].kind = "llm_phase1"
                  /\ LastCall.kind \in {"llm_phase1b", "llm_phase2"})
  /\ [][LaterReplyWithToolJson =>
          /\ turn'.pc = "done"
          /\ turn'.calls = turn.calls
          /\ turn'.reply = stripToolJsonFromReply(cResult.text)
          /\ cPc' = "idle"]_vars
  /\ [](TurnProgress \in 0..5000 /\ (turn.pc \notin {"idle", "done", "failed"} => TurnCanStep))
  /\ [][TurnProgress' > TurnProgress]_vars

C36_Witness ==
  /\ turn.pc = "done"
  /\ turn.toolAction.action = "flight_status"
  /\ Len(turn.calls) = 3
  /\ turn.calls[3].kind = "llm_phase2"
  /\ turn.raw = <<"open", "none", "rb">>
  /\ parseToolAction(turn.raw) # Null

CollabCalls == {k \in 1..Len(turn.calls) : turn.calls[k].kind \in Collaborators}

\* the collaborators an action may call
AllowedLookups(action) ==
  CASE action = "flight_status" -> {"getFlightStatus"}
    [] action = "route_weather" -> {"getRouteWeather"}
    [] action = "weather_at_flight_arrival" -> {"getFlightStatus", "getWeatherForPlace"}
    [] OTHER -> {}

\* C37: collaborator lookups happen only between Phase 1 and Phase 2: a
\* lookup is called only after the Phase-1 reply has parsed to a recognized
\* action other than none, always before the Phase-2 backend call, and only
\* on the collaborator that matches the action; on the plain-text, malformed
\* and none branches no collaborator is ever called
C37_LookupsBetweenPhases ==
  /\ [](\A k \in CollabCalls :
          /\ k >= 2
          /\ turn.calls[1].kind = "llm_phase1"
          /\ turn.toolAction # Null
          /\ turn.toolAction = parseToolAction(turn.firstReply)
          /\ turn.toolAction.action \in ToolActions
          /\ turn.calls[k].kind \in AllowedLookups(turn.toolAction.action)
          /\ \A j \in 1..Len(turn.calls) :
               turn.calls[j].kind = "llm_phase2" => k < j
          /\ \A j \in 1..Len(turn.calls) : turn.calls[j].kind # "llm_phase1b")
  /\ [](turn.pc = "collab" => cPc = "idle")
  /\ [][(Phase1Returned /\ (parseToolAction(cResult.text) = Null
                             \/ parseToolAction(cResult.text).action = "none")) =>
          (turn'.collab = <<>> /\ turn'.pc \in {"done", "phase1b"})]_vars
  /\ []((parseToolAction(turn.firstReply) = Null
          \/ parseToolAction(turn.firstReply).action = "none") => CollabCalls = {})

C37_Witness ==
  /\ turn.pc = "phase2"
  /\ turn.toolAction.action = "route_weather"
  /\ Len(turn.calls) = 3
  /\ turn.calls[1].kind = "llm_phase1"
  /\ turn.calls[2].kind = "getRouteWeather"
  /\ turn.calls[3].kind = "llm_phase2"

Phase2Calls == {k \in 1..Len(turn.calls) : turn.calls[k].kind = "llm_phase2"}

\* C38: in the Phase-2 conversation the assistant message TOOL_RESULT
\* <action>: <summary> and the user instruction are the last two messages, in
\* that order, whatever the length of the caller's history: the cut to the
\* window never drops or reorders them, and the label of the TOOL_RESULT
\* message names the action parsed in Phase 1
C38_ToolResultLast ==
  \A k \in Phase2Calls :
    LET msgs == turn.calls[k].msgs
        n == Len(msgs)
    IN /\ n >= 3
       /\ n <= MAX_MESSAGES + 1
       /\ msgs[n] = Msg("user", <<"instruction">>)
       /\ msgs[n - 1] = Msg("assistant", turn.toolResultSummary)
       /\ turn.toolResultSummary # <<>>
       /\ turn.toolResultSummary[1] = LabelOf(parseToolAction(turn.firstReply).action)
       /\ \A i \in 1..(n - 2) :
            \/ msgs[i].role = "system"
            \/ \E j \in 1..Len(turn.history) : msgs[i] = turn.history[j]
       /\ turn.pc = "phase2" => cMsgs = msgs

C38_Witness ==
  /\ turn.pc = "phase2"
  /\ Len(turn.history) = MAX_MESSAGES + 1
  /\ turn.toolAction.action = "weather_at_flight_arrival"
  /\ Len(turn.calls[Len(turn.calls)].msgs) = MAX_MESSAGES + 1
  /\ LastCall.msgs[MAX_MESSAGES] = Msg("assistant", turn.toolResultSummary)
  /\ turn.toolResultSummary[1] = "toolResultWfa"
  /\ LastCall.msgs[MAX_MESSAGES - 1] = turn.history[MAX_MESSAGES + 1]
  /\ LastCall.msgs[MAX_MESSAGES + 1] = Msg("user", <<"instruction">>)

RouteReturned == rt.pc = "returned"

\* C39: getRouteWeather sends the origin and the destination requests
\* together, and its result does not depend on the order in which they
\* complete: the summary lists the origin before the destination, a missing
\* origin is reported in preference to a missing destination, the forecasts
\* are requested only when both cities were geocoded, and a failed forecast
\* gives the one route-level failure summary
C39_RouteWeatherOrderIndependent ==
  /\ [](/\ rt.pc = "geocoding" => (rt.geo.origin # "none" /\ rt.geo.dest # "none")
        /\ (rt.wx.origin # "none" \/ rt.wx.dest # "none") =>
             /\ rt.wx.origin # "none" /\ rt.wx.dest # "none"
             /\ rt.geo.origin = "coords" /\ rt.geo.dest = "coords"
        /\ (RouteReturned /\ rt.geo.origin = "null") =>
             rt.result = CollabReturned(<<"sumOriginNotFound">>, <<>>)
        /\ (RouteReturned /\ rt.geo.origin = "coords" /\ rt.geo.dest = "null") =>
             rt.result = CollabReturned(<<"sumDestNotFound">>, <<>>)
        /\ (RouteReturned /\ rt.geo.origin \in {"null", "coords"}
               /\ rt.geo.dest \in {"null", "coords"}
               /\ (rt.geo.origin = "null" \/ rt.geo.dest = "null")) =>
             (rt.wx.origin = "none" /\ rt.wx.dest = "none")
        /\ (RouteReturned /\ (rt.wx.origin = "error" \/ rt.wx.dest = "error")) =>
             rt.result.summary = <<"sumRouteUnable">>
        /\ (RouteReturned /\ rt.wx.origin \in {"current", "nodata"}
               /\ rt.wx.dest \in {"current", "nodata"}) =>
             /\ Len(rt.result.summary) = 3
             /\ rt.result.summary[1] \in {"sumOriginWeather", "sumOriginNoData"}
             /\ rt.result.summary[3] \in {"sumDestWeather", "sumDestNoData"}
        /\ (RouteReturned /\ rt.wx.origin = "current" /\ rt.wx.dest = "current") =>
             rt.result = getRouteWeatherResult([geoOrigin |-> TRUE, geoDest |-> TRUE,
                                                wxOrigin |-> TRUE, wxDest |-> TRUE])
        /\ RouteReturned => rt.result.ok)
  /\ [][RouteReturned => (rt'.pc = "returned" /\ rt'.result = rt.result)]_vars

\* the destination answered first both times, and the summary still lists
\* the origin first
C39_Witness ==
  /\ RouteReturned
  /\ Len(rt.responses) = 4
  /\ rt.responses[1].side = "dest" /\ rt.responses[2].side = "origin"
  /\ rt.responses[3].side = "dest" /\ rt.responses[4].side = "origin"
  /\ rt.result.summary = <<"sumOriginWeather", "sp", "sumDestWeather">>

====
